---- MODULE Spec2Model ----
(***************************************************************************)
(* emoji-search-and-destroy: the emoji detector (pkg/emoji/detector.go),   *)
(* the file processor and its directory walk (same file, second package    *)
(* clause), and the command layer that drives them                         *)
(* (internal/cli/commands/destroy.go).                                     *)
(*                                                                         *)
(* Text is a sequence of bytes (0..255), as a Go string is; code points    *)
(* are obtained by UTF-8 decoding as the Go runtime decodes them.  Paths   *)
(* and exclusion patterns are strings, read character by character.        *)
(***************************************************************************)
EXTENDS Integers, Sequences, FiniteSets

VARIABLES
    \* ---- configuration (commandConfig / FileProcessor) ----
    mode,           \* "dir" | "content": which branch processInput takes
    rootPath,       \* args[0] handed to ProcessDirectory
    excludes,       \* FileProcessor.excludes
    allowedEmojis,  \* Detector.allowedEmojis (the keys of the map)
    dryRun,         \* commandConfig.dryRun
    \* ---- the file system ----
    disk,           \* node -> [kind, content, perm]
    disk0,          \* history: disk as it was before the run
    fault,          \* the one I/O failure the environment injects, if any
    stdin,          \* what is piped to the command: bytes, or the lines of a file list
    \* ---- ProcessDirectory / processInput in progress ----
    pc,             \* "start" | "walk" | "scan" | "returned" | "done"
    pending,        \* entries WalkDir has still to hand to the callback
    results,        \* the results slice
    err,            \* the error returned ("" when nil)
    last,           \* history: the last (ProcessResult, error) ProcessFile returned
    readLog,        \* history: nodes os.ReadFile was called on, in order
    stdout,         \* bytes processContentFromStdin printed
    stderr,         \* the warnings printed, one string per line
    reported,       \* the results DestroyEmojis handed to outputResults
    jsonDoc,        \* the JSON document outputJSON printed: <<>> or <<document>>
    first,          \* history: <<>>, or <<[results, err, dryRun]>> of the run before this one
    \* ---- the detector used on its own ----
    text,           \* input text
    found,          \* FindEmojis(text)
    cleaned,        \* RemoveEmojis(text)
    dpc             \* "new" | "found" | "removed" | "both"

walkVars == <<mode, rootPath, excludes, dryRun, disk, disk0, fault, stdin,
              pc, pending, results, err, last, readLog, stdout, stderr, reported, jsonDoc,
              first>>
detVars  == <<text, found, cleaned, dpc>>
vars     == <<walkVars, allowedEmojis, detVars>>

----------------------------------------------------------------------------
(* Bounds of the model *)

\* texts handed to the detector are concatenations of at most this many chunks
MaxTextLen == 3

----------------------------------------------------------------------------
(* Generic helpers *)

\* The one element of a singleton set.  The({e : x \in {v}}) is
\* LET x == v IN e, with v evaluated once however often e mentions x; the
\* definitions below bind their arguments this way.
The(S) == CHOOSE x \in S : TRUE

Contains(seq0, x0) ==
    \E seq \in {seq0}, x \in {x0} : \E i \in 1..Len(seq) : seq[i] = x

\* the concatenation of the sequences of ss
Concat(ss0) ==
    The({ LET F[k \in 0..Len(ss)] == IF k = 0 THEN <<>> ELSE F[k-1] \o ss[k]
          IN  F[Len(ss)] : ss \in {ss0} })

\* every sequence of length <= n over S
SeqsUpTo(S, n) == UNION {[1..k -> S] : k \in 0..n}

----------------------------------------------------------------------------
(* UTF-8, as the Go runtime decodes and encodes it *)

RuneError == \hFFFD

IsCont(b) == b >= \h80 /\ b <= \hBF

\* utf8.DecodeRuneInString(s[i:]) : <<rune, width>>.  An invalid or truncated
\* sequence decodes to RuneError with width 1.
DecodeRune(s, i) ==
    LET n  == Len(s) - i + 1
        b0 == s[i]
    IN  IF b0 < \h80 THEN <<b0, 1>>
        ELSE IF b0 < \hC2 \/ b0 > \hF4 THEN <<RuneError, 1>>
        ELSE
          LET size == IF b0 < \hE0 THEN 2 ELSE IF b0 < \hF0 THEN 3 ELSE 4
              lo   == IF b0 = \hE0 THEN \hA0 ELSE IF b0 = \hF0 THEN \h90 ELSE \h80
              hi   == IF b0 = \hED THEN \h9F ELSE IF b0 = \hF4 THEN \h8F ELSE \hBF
          IN  IF n < size THEN <<RuneError, 1>>
              ELSE IF s[i+1] < lo \/ s[i+1] > hi THEN <<RuneError, 1>>
              ELSE IF size = 2
                THEN <<(b0 % 32) * 64 + (s[i+1] % 64), 2>>
              ELSE IF ~IsCont(s[i+2]) THEN <<RuneError, 1>>
              ELSE IF size = 3
                THEN <<(b0 % 16) * 4096 + (s[i+1] % 64) * 64 + (s[i+2] % 64), 3>>
              ELSE IF ~IsCont(s[i+3]) THEN <<RuneError, 1>>
              ELSE <<(b0 % 8) * 262144 + (s[i+1] % 64) * 4096
                       + (s[i+2] % 64) * 64 + (s[i+3] % 64), 4>>

\* string(r) for a rune r
EncodeRune(r) ==
    IF r < 0 \/ r > \h10FFFF \/ (r >= \hD800 /\ r <= \hDFFF)
      THEN <<\hEF, \hBF, \hBD>>
    ELSE IF r < \h80 THEN <<r>>
    ELSE IF r < \h800 THEN <<\hC0 + (r \div 64), \h80 + (r % 64)>>
    ELSE IF r < \h10000
      THEN <<\hE0 + (r \div 4096), \h80 + ((r \div 64) % 64), \h80 + (r % 64)>>
    ELSE <<\hF0 + (r \div 262144), \h80 + ((r \div 4096) % 64),
           \h80 + ((r \div 64) % 64), \h80 + (r % 64)>>

\* the spans `for _, r := range s` steps through: records [r, at, w]
RECURSIVE RuneSpansFrom(_, _)
RuneSpansFrom(s0, i0) ==
    The({ IF i > Len(s) THEN <<>>
          ELSE The({ <<[r |-> d[1], at |-> i, w |-> d[2]]>>
                       \o RuneSpansFrom(s, i + d[2]) : d \in {DecodeRune(s, i)} })
          : s \in {s0}, i \in {i0} })

RuneSpans(s) == RuneSpansFrom(s, 1)

\* []rune(s)
ToRunes(s) ==
    The({ [k \in 1..Len(sp) |-> sp[k].r] : sp \in {RuneSpans(s)} })

\* string(runes)
RunesToString(rs0) ==
    The({ LET F[k \in 0..Len(rs)] ==
                IF k = 0 THEN <<>> ELSE F[k-1] \o EncodeRune(rs[k])
          IN  F[Len(rs)] : rs \in {rs0} })

----------------------------------------------------------------------------
(* Detector *)

\* emojiPattern with its sixth class starting where the fifth does
emojiPatternWidened ==
    << <<\h1F600, \h1F64F>>, <<\h1F300, \h1F5FF>>, <<\h1F680, \h1F6FF>>,
       <<\h1F1E0, \h1F1FF>>, <<\h2600, \h26FF>>,   <<\h2600, \h27BF>>,
       <<\h1F900, \h1F9FF>>, <<\h1F018, \h1F0FF>>, <<\h1F90A, \h1F93A>>,
       <<\h1F940, \h1F94C>>, <<\h1F947, \h1F978>>, <<\h1F980, \h1F991>>,
       <<\h1F993, \h1F9A2>>, <<\h1F9A5, \h1F9AA>>, <<\h1F9AE, \h1F9CA>>,
       <<\h1F9CD, \h1F9FF>>, <<\h1FA70, \h1FA73>>, <<\h1FA78, \h1FA7A>>,
       <<\h1FA80, \h1FA82>>, <<\h1FA90, \h1FA95>> >>

\* the character classes of emojiPattern, in the order of the alternation
emojiPattern ==
    << <<\h1F600, \h1F64F>>, <<\h1F300, \h1F5FF>>, <<\h1F680, \h1F6FF>>,
       <<\h1F1E0, \h1F1FF>>, <<\h2600, \h26FF>>,   <<\h2700, \h27BF>>,
       <<\h1F900, \h1F9FF>>, <<\h1F018, \h1F0FF>>, <<\h1F90A, \h1F93A>>,
       <<\h1F940, \h1F94C>>, <<\h1F947, \h1F978>>, <<\h1F980, \h1F991>>,
       <<\h1F993, \h1F9A2>>, <<\h1F9A5, \h1F9AA>>, <<\h1F9AE, \h1F9CA>>,
       <<\h1F9CD, \h1F9FF>>, <<\h1FA70, \h1FA73>>, <<\h1FA78, \h1FA7A>>,
       <<\h1FA80, \h1FA82>>, <<\h1FA90, \h1FA95>> >>

\* one rune matches the compiled emojiRegex
RegexMatchesRune(r) ==
    \E k \in 1..Len(emojiPattern) : r >= emojiPattern[k][1] /\ r <= emojiPattern[k][2]

isEmoji(r) ==
    \/ r >= \h1F600 /\ r <= \h1F64F
    \/ r >= \h1F300 /\ r <= \h1F5FF
    \/ r >= \h1F680 /\ r <= \h1F6FF
    \/ r >= \h1F1E0 /\ r <= \h1F1FF
    \/ r >= \h2600 /\ r <= \h26FF
    \/ r >= \h2700 /\ r <= \h27BF
    \/ r >= \h1F900 /\ r <= \h1F9FF

\* d.emojiRegex.FindAllString(s, -1): the matched substrings, left to right.
\* Every match is one code point; an undecodable byte is RuneError to the
\* regexp engine and matches nothing.
FindAllString(s0) ==
    The({ LET F[k \in 0..Len(sp)] ==
                IF k = 0 THEN <<>>
                ELSE IF RegexMatchesRune(sp[k].r)
                       THEN Append(F[k-1], SubSeq(s, sp[k].at, sp[k].at + sp[k].w - 1))
                       ELSE F[k-1]
          IN  F[Len(sp)] : s \in {s0}, sp \in {RuneSpans(s0)} })

\* d.emojiRegex.ReplaceAllString(s, ""): the unmatched bytes, verbatim
ReplaceAllString(s0) ==
    The({ LET F[k \in 0..Len(sp)] ==
                IF k = 0 THEN <<>>
                ELSE IF RegexMatchesRune(sp[k].r)
                       THEN F[k-1]
                       ELSE F[k-1] \o SubSeq(s, sp[k].at, sp[k].at + sp[k].w - 1)
          IN  F[Len(sp)] : s \in {s0}, sp \in {RuneSpans(s0)} })

\* d.emojiRegex.MatchString(s)
MatchString(s) == FindAllString(s) # <<>>

\* CollectUnseen without the seen map: every candidate that is not allowed is
\* appended
RECURSIVE CollectNotAllowed(_, _, _)
CollectNotAllowed(allowed0, emojis0, cands0) ==
    The({ IF cands = <<>> THEN emojis
          ELSE IF Head(cands) \in allowed
            THEN CollectNotAllowed(allowed, emojis, Tail(cands))
            ELSE CollectNotAllowed(allowed, Append(emojis, Head(cands)), Tail(cands))
          : allowed \in {allowed0}, emojis \in {emojis0}, cands \in {cands0} })

\* one of the two loops of FindEmojis: append each candidate that is neither
\* allowed nor seen
RECURSIVE CollectUnseen(_, _, _)
CollectUnseen(allowed0, emojis0, cands0) ==
    The({ IF cands = <<>> THEN emojis
          ELSE IF Head(cands) \in allowed \/ Contains(emojis, Head(cands))
            THEN CollectUnseen(allowed, emojis, Tail(cands))
            ELSE CollectUnseen(allowed, Append(emojis, Head(cands)), Tail(cands))
          : allowed \in {allowed0}, emojis \in {emojis0}, cands \in {cands0} })

\* the strings string(r) of the runes of s that isEmoji accepts, in order
EmojiRuneStrings(s) ==
    The({ LET F[k \in 0..Len(rs)] ==
                IF k = 0 THEN <<>>
                ELSE IF isEmoji(rs[k]) THEN Append(F[k-1], EncodeRune(rs[k])) ELSE F[k-1]
          IN  F[Len(rs)] : rs \in {ToRunes(s)} })

FindEmojis(allowed, s) ==
    CollectUnseen(allowed,
                  CollectUnseen(allowed, <<>>, FindAllString(s)),
                  EmojiRuneStrings(s))

\* RemoveSelective without the lookup in the allow map: every emoji rune is
\* dropped, the allowed ones included
RemoveSelectiveAll(allowed0, s) ==
    The({ LET F[k \in 0..Len(rs)] ==
                IF k = 0 THEN <<>>
                ELSE IF isEmoji(rs[k]) \/ MatchString(EncodeRune(rs[k]))
                       THEN F[k-1]
                       ELSE Append(F[k-1], rs[k])
          IN  RunesToString(F[Len(rs)]) : allowed \in {allowed0}, rs \in {ToRunes(s)} })

\* the per-rune branch of RemoveEmojis, taken when the allow map is not empty
RemoveSelective(allowed0, s) ==
    The({ LET F[k \in 0..Len(rs)] ==
                IF k = 0 THEN <<>>
                ELSE IF isEmoji(rs[k]) \/ MatchString(EncodeRune(rs[k]))
                       THEN IF EncodeRune(rs[k]) \in allowed
                              THEN Append(F[k-1], rs[k])
                              ELSE F[k-1]
                       ELSE Append(F[k-1], rs[k])
          IN  RunesToString(F[Len(rs)]) : allowed \in {allowed0}, rs \in {ToRunes(s)} })

\* the "faster method" of RemoveEmojis: regexp substitution, then a rune filter
RemoveFast(s) ==
    The({ LET F[k \in 0..Len(rs)] ==
                IF k = 0 THEN <<>>
                ELSE IF ~isEmoji(rs[k]) THEN Append(F[k-1], rs[k]) ELSE F[k-1]
          IN  RunesToString(F[Len(rs)]) : rs \in {ToRunes(ReplaceAllString(s))} })

RemoveEmojis(allowed, s) ==
    IF Cardinality(allowed) > 0 THEN RemoveSelective(allowed, s) ELSE RemoveFast(s)

----------------------------------------------------------------------------
(* Strings: paths and patterns are TLA+ strings, i.e. sequences of characters *)

Char(s, i) == SubSeq(s, i, i)

HasPrefix(s0, p0) ==
    \E s \in {s0}, p \in {p0} : Len(p) <= Len(s) /\ SubSeq(s, 1, Len(p)) = p

HasSuffix(s0, p0) ==
    \E s \in {s0}, p \in {p0} :
        Len(p) <= Len(s) /\ SubSeq(s, Len(s) - Len(p) + 1, Len(s)) = p

\* strings.Contains
StrContains(s0, sub0) ==
    \E s \in {s0}, sub \in {sub0} :
        \E i \in 1..(Len(s) - Len(sub) + 1) : SubSeq(s, i, i + Len(sub) - 1) = sub

\* the positions of character c in s
Positions(s, c) == {i \in 1..Len(s) : Char(s, i) = c}

\* index of the first / last occurrence of character c in s, 0 when absent
IndexOf(s, c) ==
    The({ IF ps = {} THEN 0 ELSE CHOOSE i \in ps : \A j \in ps : i <= j
          : ps \in {Positions(s, c)} })

LastIndexOf(s, c) ==
    The({ IF ps = {} THEN 0 ELSE CHOOSE i \in ps : \A j \in ps : i >= j
          : ps \in {Positions(s, c)} })

\* strings.Split(s, "/")
RECURSIVE Split(_)
Split(s0) ==
    The({ IF i = 0 THEN <<s>>
          ELSE <<SubSeq(s, 1, i - 1)>> \o Split(SubSeq(s, i + 1, Len(s)))
          : s \in {s0}, i \in {IndexOf(s0, "/")} })

\* strings.Join(segs, "/")
JoinSep(segs0) ==
    The({ LET F[k \in 0..Len(segs)] ==
                IF k = 0 THEN ""
                ELSE IF k = 1 THEN segs[1]
                ELSE F[k-1] \o "/" \o segs[k]
          IN  F[Len(segs)] : segs \in {segs0} })

IsAbs(p) == HasPrefix(p, "/")

\* the element stack filepath.Clean builds: empty and "." elements dropped,
\* ".." backs up over a real element
RECURSIVE CleanElems(_, _, _)
CleanElems(segs0, rooted0, out0) ==
    The({ IF segs = <<>> THEN out
          ELSE IF Head(segs) = "" \/ Head(segs) = "."
            THEN CleanElems(Tail(segs), rooted, out)
          ELSE IF Head(segs) = ".."
            THEN IF out # <<>> /\ out[Len(out)] # ".."
                   THEN CleanElems(Tail(segs), rooted, SubSeq(out, 1, Len(out) - 1))
                 ELSE IF rooted
                   THEN CleanElems(Tail(segs), rooted, out)
                 ELSE CleanElems(Tail(segs), rooted, Append(out, ".."))
          ELSE CleanElems(Tail(segs), rooted, Append(out, Head(segs)))
          : segs \in {segs0}, rooted \in {rooted0}, out \in {out0} })

\* filepath.Clean
Clean(p0) ==
    The({ IF p = "" THEN "."
          ELSE The({ IF IsAbs(p) THEN "/" \o JoinSep(out)
                     ELSE IF out = <<>> THEN "."
                     ELSE JoinSep(out)
                     : out \in {CleanElems(Split(p), IsAbs(p), <<>>)} })
          : p \in {p0} })

\* filepath.Join(dir, name), as WalkDir builds the path of a directory entry
Join(dir0, name0) ==
    The({ IF dir = "" THEN Clean(name)
          ELSE IF name = "" THEN Clean(dir)
          ELSE Clean(dir \o "/" \o name)
          : dir \in {dir0}, name \in {name0} })

\* p with its trailing slashes stripped
RECURSIVE TrimSlashes(_)
TrimSlashes(p0) ==
    The({ IF Len(p) > 0 /\ Char(p, Len(p)) = "/"
            THEN TrimSlashes(SubSeq(p, 1, Len(p) - 1))
            ELSE p
          : p \in {p0} })

\* filepath.Base
Base(p0) ==
    The({ IF p = "" THEN "."
          ELSE IF t = "" THEN "/"
          ELSE SubSeq(t, LastIndexOf(t, "/") + 1, Len(t))
          : p \in {p0}, t \in {TrimSlashes(p0)} })

\* filepath.Ext: from the last dot of the final element
Ext(p0) ==
    The({ IF dot > slash THEN SubSeq(p, dot, Len(p)) ELSE ""
          : p \in {p0}, slash \in {LastIndexOf(p0, "/")}, dot \in {LastIndexOf(p0, ".")} })

\* filepath.Match for patterns built from literal characters, * and ?
\* (no character classes, no escapes): * is any run of non-separators,
\* ? is one non-separator
RECURSIVE Match(_, _)
Match(pattern0, name0) ==
    \E pattern \in {pattern0}, name \in {name0} :
        IF pattern = "" THEN name = ""
        ELSE IF Head(pattern) = "*"
          THEN \/ Match(Tail(pattern), name)
               \/ name # "" /\ Head(name) # "/" /\ Match(pattern, Tail(name))
        ELSE IF Head(pattern) = "?"
          THEN name # "" /\ Head(name) # "/" /\ Match(Tail(pattern), Tail(name))
        ELSE name # "" /\ Head(name) = Head(pattern) /\ Match(Tail(pattern), Tail(name))

----------------------------------------------------------------------------
(* Exclusion matching *)

\* matchExclude without the loop over the path components
matchExcludeWithoutSegments(rawPath, rawPattern) ==
    \E path \in {Clean(rawPath)}, pattern \in {Clean(rawPattern)} :
        IF path = pattern THEN TRUE
        ELSE IF IsAbs(pattern)
          THEN HasPrefix(path, pattern \o "/") \/ path = pattern
        ELSE \/ HasSuffix(path, "/" \o pattern)
             \/ Base(path) = pattern
             \/ /\ StrContains(pattern, "*") \/ StrContains(pattern, "?")
                /\ Match(pattern, path) \/ Match(pattern, Base(path))

\* matchExclude without the branch for absolute patterns: they go through
\* the strategies for relative ones
matchExcludeWithoutAbs(rawPath, rawPattern) ==
    \E path \in {Clean(rawPath)}, pattern \in {Clean(rawPattern)} :
        IF path = pattern THEN TRUE
        ELSE \/ Contains(Split(path), pattern)
             \/ HasSuffix(path, "/" \o pattern)
             \/ Base(path) = pattern
             \/ /\ StrContains(pattern, "*") \/ StrContains(pattern, "?")
                /\ Match(pattern, path) \/ Match(pattern, Base(path))

\* matchExclude given the path as it reads from the root of the walk, so that
\* the segments of the root path itself are not compared with the pattern
matchExcludeBelowRoot(rawPath, rawPattern) ==
    \E path \in {Clean(IF rawPath = rootPath THEN "."
                       ELSE IF HasPrefix(rawPath, rootPath \o "/")
                         THEN SubSeq(rawPath, Len(rootPath) + 2, Len(rawPath))
                       ELSE rawPath)},
       pattern \in {Clean(rawPattern)} :
        IF path = pattern THEN TRUE
        ELSE IF IsAbs(pattern)
          THEN HasPrefix(path, pattern \o "/") \/ path = pattern
        ELSE \/ Contains(Split(path), pattern)
             \/ HasSuffix(path, "/" \o pattern)
             \/ Base(path) = pattern
             \/ /\ StrContains(pattern, "*") \/ StrContains(pattern, "?")
                /\ Match(pattern, path) \/ Match(pattern, Base(path))

matchExclude(rawPath, rawPattern) ==
    \E path \in {Clean(rawPath)}, pattern \in {Clean(rawPattern)} :
        IF path = pattern THEN TRUE
        ELSE IF IsAbs(pattern)
          THEN HasPrefix(path, pattern \o "/") \/ path = pattern
        ELSE \/ Contains(Split(path), pattern)
             \/ HasSuffix(path, "/" \o pattern)
             \/ Base(path) = pattern
             \/ /\ StrContains(pattern, "*") \/ StrContains(pattern, "?")
                /\ Match(pattern, path) \/ Match(pattern, Base(path))

isExcluded(excl0, path0) ==
    \E excl \in {excl0}, path \in {path0} :
        \E i \in 1..Len(excl) : matchExclude(path, excl[i])

----------------------------------------------------------------------------
(* The file tree the walk runs over *)

\* the directory rootPath names, and what lies below it:
\*   .git/config  a.txt  node_modules/index.js  src/b.txt  src/p.png
Nodes == {"root", "git", "gitc", "a", "nm", "nmi", "src", "srcb", "srcp"}

NodeName ==
    [git |-> ".git", gitc |-> "config", a |-> "a.txt", nm |-> "node_modules",
     nmi |-> "index.js", src |-> "src", srcb |-> "b.txt", srcp |-> "p.png"]

Parent ==
    [git |-> "root", gitc |-> "git", a |-> "root", nm |-> "root",
     nmi |-> "nm", src |-> "root", srcb |-> "src", srcp |-> "src"]

\* os.ReadDir(dir): the entries of a directory, sorted by file name
ReadDir ==
    [root |-> <<"git", "a", "nm", "src">>, git |-> <<"gitc">>,
     nm |-> <<"nmi">>, src |-> <<"srcb", "srcp">>]

DirNodes  == DOMAIN ReadDir
FileNodes == Nodes \ DirNodes

\* the path WalkDir hands to the callback for node n
RECURSIVE WalkPath(_, _)
WalkPath(root, n) ==
    IF n = "root" THEN root ELSE Join(WalkPath(root, Parent[n]), NodeName[n])

----------------------------------------------------------------------------
(* FileProcessor *)

NoFault == [node |-> "", op |-> "none"]

Faulty(n, op) == fault = [node |-> n, op |-> op]

\* os.Stat(path) fails: injected, or path is a symbolic link that leads nowhere
StatFails(d, n) == Faulty(n, "stat") \/ d[n].kind = "symlink-dangling"

\* the file type in the mode os.Stat(path) returns; os.Stat follows a symbolic
\* link and reports on what it leads to
StatKind(d, n) ==
    IF d[n].kind = "symlink-file" THEN "file"
    ELSE IF d[n].kind = "symlink-dir" THEN "dir"
    ELSE d[n].kind

\* the zero ProcessResult but for its path
EmptyResult(filePath) ==
    [FilePath |-> filePath, EmojisFound |-> <<>>, OriginalSize |-> 0,
     NewSize |-> 0, Modified |-> FALSE]

\* WriteAndChmod without the os.Chmod call: the mode of the existing file
\* stays what it was
WriteWithoutChmod(d, n, bytes) ==
    IF Faulty(n, "open")
      THEN {[disk |-> d, err |-> "failed to write cleaned file: open failed"]}
    ELSE IF Faulty(n, "write")
      THEN {[disk |-> [d EXCEPT ![n].content = SubSeq(bytes, 1, k)],
             err  |-> "failed to write cleaned file: write failed"]
              : k \in 0..Len(bytes)}
    ELSE {[disk |-> [d EXCEPT ![n].content = bytes], err |-> ""]}

\* os.WriteFile(filePath, cleaned, 0600) on an existing file followed by
\* os.Chmod(filePath, 0600): the outcomes [disk, err].  WriteFile opens with
\* O_TRUNC, and its permission argument is not applied to a file that exists.
\* A write that fails leaves some prefix of the new content behind.
WriteAndChmod(d, n, bytes) ==
    IF Faulty(n, "open")
      THEN {[disk |-> d, err |-> "failed to write cleaned file: open failed"]}
    ELSE IF Faulty(n, "write")
      THEN {[disk |-> [d EXCEPT ![n].content = SubSeq(bytes, 1, k)],
             err  |-> "failed to write cleaned file: write failed"]
              : k \in 0..Len(bytes)}
    ELSE IF Faulty(n, "chmod")
      THEN {[disk |-> [d EXCEPT ![n].content = bytes],
             err  |-> "failed to set file permissions: chmod failed"]}
    ELSE {[disk |-> [d EXCEPT ![n].content = bytes, ![n].perm = \o600],
           err  |-> ""]}

\* ProcessRead with the dryRun test left out: the file is written in preview too
ProcessReadIgnoringPreview(d, filePath, n, dry, content, emojis, cleanedText) ==
    LET result   == [FilePath     |-> filePath,
                     EmojisFound  |-> emojis,
                     OriginalSize |-> Len(content),
                     NewSize      |-> 0,
                     Modified     |-> FALSE]
        modified == [result EXCEPT !.NewSize  = Len(cleanedText),
                                   !.Modified = TRUE]
    IN  IF Len(emojis) = 0
          THEN {[result |-> result, err |-> "", disk |-> d]}
        ELSE {[result |-> modified, err |-> w.err, disk |-> w.disk]
                : w \in WriteAndChmod(d, n, cleanedText)}

\* ProcessRead with the early return for a file without emojis left out: the
\* file is written back whenever dryRun is false
ProcessReadAlwaysWriting(d, filePath, n, dry, content, emojis, cleanedText) ==
    LET result   == [FilePath     |-> filePath,
                     EmojisFound  |-> emojis,
                     OriginalSize |-> Len(content),
                     NewSize      |-> 0,
                     Modified     |-> FALSE]
        modified == [result EXCEPT !.NewSize  = Len(cleanedText),
                                   !.Modified = TRUE]
        ret      == IF Len(emojis) = 0 THEN result ELSE modified
    IN  IF ~dry
          THEN {[result |-> ret, err |-> w.err, disk |-> w.disk]
                  : w \in WriteAndChmod(d, n, cleanedText)}
        ELSE {[result |-> ret, err |-> "", disk |-> d]}

\* ProcessRead setting NewSize and Modified only inside the dryRun test, that
\* is, only when the file is written
ProcessReadPreviewUnmodified(d, filePath, n, dry, content, emojis, cleanedText) ==
    LET result   == [FilePath     |-> filePath,
                     EmojisFound  |-> emojis,
                     OriginalSize |-> Len(content),
                     NewSize      |-> 0,
                     Modified     |-> FALSE]
        modified == [result EXCEPT !.NewSize  = Len(cleanedText),
                                   !.Modified = TRUE]
    IN  IF Len(emojis) = 0
          THEN {[result |-> result, err |-> "", disk |-> d]}
        ELSE IF ~dry
          THEN {[result |-> modified, err |-> w.err, disk |-> w.disk]
                  : w \in WriteAndChmod(d, n, cleanedText)}
        ELSE {[result |-> result, err |-> "", disk |-> d]}

\* ProcessRead returning the zero result but for the path when the rewrite
\* fails, as it does when the read fails
ProcessReadDroppingResult(d, filePath, n, dry, content, emojis, cleanedText) ==
    LET result   == [FilePath     |-> filePath,
                     EmojisFound  |-> emojis,
                     OriginalSize |-> Len(content),
                     NewSize      |-> 0,
                     Modified     |-> FALSE]
        modified == [result EXCEPT !.NewSize  = Len(cleanedText),
                                   !.Modified = TRUE]
    IN  IF Len(emojis) = 0
          THEN {[result |-> result, err |-> "", disk |-> d]}
        ELSE IF ~dry
          THEN {[result |-> IF w.err = "" THEN modified ELSE EmptyResult(filePath),
                 err |-> w.err, disk |-> w.disk]
                  : w \in WriteAndChmod(d, n, cleanedText)}
        ELSE {[result |-> modified, err |-> "", disk |-> d]}

\* ProcessFile once the file has been read: content is what os.ReadFile
\* returned, emojis and cleanedText what the detector makes of it
ProcessRead(d, filePath, n, dry, content, emojis, cleanedText) ==
    LET result   == [FilePath     |-> filePath,
                     EmojisFound  |-> emojis,
                     OriginalSize |-> Len(content),
                     NewSize      |-> 0,
                     Modified     |-> FALSE]
        modified == [result EXCEPT !.NewSize  = Len(cleanedText),
                                   !.Modified = TRUE]
    IN  IF Len(emojis) = 0
          THEN {[result |-> result, err |-> "", disk |-> d]}
        ELSE IF ~dry
          THEN {[result |-> modified, err |-> w.err, disk |-> w.disk]
                  : w \in WriteAndChmod(d, n, cleanedText)}
        ELSE {[result |-> modified, err |-> "", disk |-> d]}

\* ProcessFile(filePath, dry) on the file node n that filePath names:
\* the possible outcomes [result, err, disk]
ProcessFile(allowed, d, filePath, n, dry) ==
    IF Faulty(n, "read")
      THEN {[result |-> EmptyResult(filePath),
             err    |-> "failed to read file: read failed",
             disk   |-> d]}
    ELSE IF StatKind(d, n) = "dir"
      THEN {[result |-> EmptyResult(filePath),
             err    |-> "failed to read file: is a directory",
             disk   |-> d]}
    ELSE UNION { ProcessRead(d, filePath, n, dry, content, emojis, cleanedText)
                 : content \in {d[n].content},
                   emojis \in {FindEmojis(allowed, d[n].content)},
                   cleanedText \in {RemoveEmojis(allowed, d[n].content)} }

\* skipExtensions with the entry for .sock missing
skipExtensionsWithoutSock ==
    {".exe", ".bin", ".so", ".dll", ".jpg", ".jpeg", ".png", ".gif", ".bmp",
     ".mp3", ".mp4", ".avi", ".mov", ".zip", ".tar", ".gz", ".7z", ".pdf"}

skipExtensions ==
    {".exe", ".bin", ".so", ".dll", ".jpg", ".jpeg", ".png", ".gif", ".bmp",
     ".mp3", ".mp4", ".avi", ".mov", ".zip", ".tar", ".gz", ".7z", ".pdf", ".sock"}

shouldSkipFile(d, path, n) ==
    IF StatFails(d, n) THEN TRUE
    ELSE IF StatKind(d, n) # "file" THEN TRUE
    ELSE Ext(path) \in skipExtensions

\* the version-control test of the walk callback
InVCSDir(path) ==
    StrContains(path, "/.git/") \/ StrContains(path, "/.svn/") \/ StrContains(path, "/.hg/")

----------------------------------------------------------------------------
(* Inputs *)

\* the byte strings texts and file contents are built from
LetterH  == <<\h48>>
Sun      == EncodeRune(\h2600)     \* in emojiPattern and in isEmoji, 3 bytes
Grin     == EncodeRune(\h1F600)    \* in emojiPattern and in isEmoji, 4 bytes
Tile     == EncodeRune(\h1F018)    \* in emojiPattern only
Accent   == EncodeRune(\hE9)       \* no emoji, 2 bytes
BadByte  == <<\hFF>>               \* not UTF-8

CleanText == <<\h48, \h69>>
SunText   == LetterH \o Sun
MixText   == Sun \o LetterH \o Grin
BadText   == BadByte \o Sun \o Accent

AllowSets == {{}, {Sun}}

RootPaths == {".", "proj", "/w/proj"}

ExcludeLists == {<<>>, <<"node_modules">>, <<"a.*", "sr?">>}

Faults ==
    {NoFault, [node |-> "root", op |-> "notexist"], [node |-> "root", op |-> "lstat"],
     [node |-> "src", op |-> "readdir"]}
    \cup {[node |-> "a", op |-> op] : op \in {"read", "write"}}
    \cup {[node |-> "srcb", op |-> op] :
            op \in {"stat", "read", "open", "write", "chmod"}}

File(content, perm) == [kind |-> "file", content |-> content, perm |-> perm]
Dir(perm)           == [kind |-> "dir", content |-> <<>>, perm |-> perm]

\* the trees a run may start from
Disks ==
    {[root |-> Dir(\o755), git |-> Dir(\o755), nm |-> Dir(\o755), src |-> Dir(\o700),
      gitc |-> File(MixText, \o640), a |-> File(ca, \o644),
      nmi |-> File(MixText, \o600), srcb |-> File(cb, \o755),
      srcp |-> File(MixText, \o644)] :
        ca \in {CleanText, SunText, MixText}, cb \in {CleanText, MixText, BadText}}

NewLine == <<\h0A>>

StdinContents ==
    {<<>>, NewLine, CleanText \o NewLine, MixText \o NewLine, MixText,
     SunText \o NewLine \o MixText \o <<\h0D>> \o NewLine}

NoLast == [result |-> EmptyResult(""), err |-> ""]

DetectorIdle ==
    /\ text = <<>> /\ found = <<>> /\ cleaned = <<>> /\ dpc = "idle"

Init ==
    /\ mode \in {"dir", "content"}
    /\ allowedEmojis \in AllowSets
    /\ dryRun \in BOOLEAN
    /\ IF mode = "dir"
         THEN /\ rootPath \in RootPaths
              /\ excludes \in ExcludeLists
              /\ disk \in Disks
              /\ fault \in Faults
              /\ stdin = <<>>
         ELSE /\ rootPath = "-"
              /\ excludes = <<>>
              /\ disk = CHOOSE d \in Disks :
                          d["a"].content = CleanText /\ d["srcb"].content = CleanText
              /\ fault = NoFault
              /\ stdin \in StdinContents
    /\ disk0 = disk
    /\ pc = "start"
    /\ pending = <<>>
    /\ results = <<>>
    /\ err = ""
    /\ last = NoLast
    /\ readLog = <<>>
    /\ stdout = <<>>
    /\ stderr = <<>>
    /\ reported = <<>> /\ jsonDoc = <<>> /\ first = <<>>
    /\ DetectorIdle

----------------------------------------------------------------------------
(* processInput: the directory branch *)

\* os.Stat(dirPath) reports that the directory does not exist
StartNotExist ==
    /\ pc = "start" /\ mode = "dir"
    /\ Faulty("root", "notexist")
    /\ err' = "directory does not exist: " \o rootPath
    /\ pc' = "returned"
    /\ UNCHANGED <<mode, rootPath, excludes, dryRun, disk, disk0, fault, stdin,
                   pending, results, last, readLog, stdout, stderr, reported, jsonDoc,
                   allowedEmojis, detVars, first>>

\* processor.ProcessDirectory(dirPath, config.dryRun) is entered
StartWalk ==
    /\ pc = "start" /\ mode = "dir"
    /\ ~Faulty("root", "notexist")
    /\ pending' = <<[path |-> rootPath, node |-> "root"]>>
    /\ pc' = "walk"
    /\ UNCHANGED <<mode, rootPath, excludes, dryRun, disk, disk0, fault, stdin,
                   results, err, last, readLog, stdout, stderr, reported, jsonDoc,
                   allowedEmojis, detVars, first>>

----------------------------------------------------------------------------
(* ProcessDirectory: one callback of filepath.WalkDir per step *)

Walking == pc = "walk" /\ pending # <<>>

Cur == Head(pending)

\* WalkDir could not Lstat the root: the callback is called with that error
CallbackErr == Cur.node = "root" /\ Faulty("root", "lstat")

\* the callback returned nil (or SkipDir): the walk goes on with `rest`,
\* and ProcessDirectory returns when nothing is left
Continue(rest0) ==
    \E rest \in {rest0} :
        /\ pending' = rest
        /\ pc' = IF rest = <<>> THEN "returned" ELSE "walk"

\* the callback returned an error: WalkDir unwinds and ProcessDirectory returns
Abort(e) ==
    /\ err' = e
    /\ pending' = Tail(pending)
    /\ pc' = "returned"

\* the entries of a directory with the paths WalkDir gives them
Entries(dirPath, dirNode) ==
    [i \in 1..Len(ReadDir[dirNode]) |->
        [path |-> Join(dirPath, NodeName[ReadDir[dirNode][i]]),
         node |-> ReadDir[dirNode][i]]]

WalkLstatError ==
    /\ Walking /\ CallbackErr
    /\ Abort("lstat " \o Cur.path \o ": permission denied")
    /\ UNCHANGED <<mode, rootPath, excludes, dryRun, disk, disk0, fault, stdin,
                   results, last, readLog, stdout, stderr, reported, jsonDoc, allowedEmojis, detVars, first>>

\* WalkExcluded returning nil for an excluded directory where the code returns
\* filepath.SkipDir: the entry is passed over but WalkDir descends into it
WalkExcludedWithoutPruning ==
    /\ Walking /\ ~CallbackErr
    /\ isExcluded(excludes, Cur.path)
    /\ Continue(IF disk[Cur.node].kind = "dir"
                  THEN Entries(Cur.path, Cur.node) \o Tail(pending)
                  ELSE Tail(pending))
    /\ UNCHANGED <<mode, rootPath, excludes, dryRun, disk, disk0, fault, stdin,
                   results, err, last, readLog, stdout, stderr, reported, jsonDoc, allowedEmojis, detVars, first>>

WalkExcluded ==
    /\ Walking /\ ~CallbackErr
    /\ isExcluded(excludes, Cur.path)
    /\ Continue(Tail(pending))
    /\ UNCHANGED <<mode, rootPath, excludes, dryRun, disk, disk0, fault, stdin,
                   results, err, last, readLog, stdout, stderr, reported, jsonDoc, allowedEmojis, detVars, first>>

WalkDirectory ==
    /\ Walking /\ ~CallbackErr
    /\ disk[Cur.node].kind = "dir"
    /\ ~Faulty(Cur.node, "readdir")
    /\ ~isExcluded(excludes, Cur.path)
    /\ Continue(Entries(Cur.path, Cur.node) \o Tail(pending))
    /\ UNCHANGED <<mode, rootPath, excludes, dryRun, disk, disk0, fault, stdin,
                   results, err, last, readLog, stdout, stderr, reported, jsonDoc, allowedEmojis, detVars, first>>

\* os.ReadDir fails: WalkDir calls the callback a second time, with the error
WalkReadDirError ==
    /\ Walking /\ ~CallbackErr
    /\ disk[Cur.node].kind = "dir"
    /\ Faulty(Cur.node, "readdir")
    /\ ~isExcluded(excludes, Cur.path)
    /\ Abort("open " \o Cur.path \o ": permission denied")
    /\ UNCHANGED <<mode, rootPath, excludes, dryRun, disk, disk0, fault, stdin,
                   results, last, readLog, stdout, stderr, reported, jsonDoc, allowedEmojis, detVars, first>>

\* the callback has got past the exclusion and directory tests
IsFileEntry ==
    /\ Walking /\ ~CallbackErr
    /\ disk[Cur.node].kind # "dir"
    /\ ~isExcluded(excludes, Cur.path)

WalkVCS ==
    /\ IsFileEntry
    /\ InVCSDir(Cur.path)
    /\ Continue(Tail(pending))
    /\ UNCHANGED <<mode, rootPath, excludes, dryRun, disk, disk0, fault, stdin,
                   results, err, last, readLog, stdout, stderr, reported, jsonDoc, allowedEmojis, detVars, first>>

WalkSkipped ==
    /\ IsFileEntry
    /\ ~InVCSDir(Cur.path)
    /\ shouldSkipFile(disk, Cur.path, Cur.node)
    /\ Continue(Tail(pending))
    /\ UNCHANGED <<mode, rootPath, excludes, dryRun, disk, disk0, fault, stdin,
                   results, err, last, readLog, stdout, stderr, reported, jsonDoc, allowedEmojis, detVars, first>>

\* the callback reaches fp.ProcessFile
IsProcessed ==
    /\ IsFileEntry
    /\ ~InVCSDir(Cur.path)
    /\ ~shouldSkipFile(disk, Cur.path, Cur.node)

\* WalkProcess putting the result in front of the results instead of after them
WalkProcessPrepending ==
    /\ IsProcessed
    /\ \E out \in ProcessFile(allowedEmojis, disk, Cur.path, Cur.node, dryRun) :
         /\ out.err = ""
         /\ disk' = out.disk
         /\ last' = [result |-> out.result, err |-> out.err]
         /\ results' = IF Len(out.result.EmojisFound) > 0
                         THEN <<out.result>> \o results
                         ELSE results
    /\ readLog' = Append(readLog, Cur.node)
    /\ Continue(Tail(pending))
    /\ UNCHANGED <<mode, rootPath, excludes, dryRun, disk0, fault, stdin,
                   err, stdout, stderr, reported, jsonDoc, allowedEmojis, detVars, first>>

WalkProcess ==
    /\ IsProcessed
    /\ \E out \in ProcessFile(allowedEmojis, disk, Cur.path, Cur.node, dryRun) :
         /\ out.err = ""
         /\ disk' = out.disk
         /\ last' = [result |-> out.result, err |-> out.err]
         /\ results' = IF Len(out.result.EmojisFound) > 0
                         THEN Append(results, out.result)
                         ELSE results
    /\ readLog' = Append(readLog, Cur.node)
    /\ Continue(Tail(pending))
    /\ UNCHANGED <<mode, rootPath, excludes, dryRun, disk0, fault, stdin,
                   err, stdout, stderr, reported, jsonDoc, allowedEmojis, detVars, first>>

\* WalkProcessError keeping the error but returning nil from the callback: the
\* walk goes on to the next entry
WalkProcessErrorContinuing ==
    /\ IsProcessed
    /\ \E out \in ProcessFile(allowedEmojis, disk, Cur.path, Cur.node, dryRun) :
         /\ out.err # ""
         /\ disk' = out.disk
         /\ last' = [result |-> out.result, err |-> out.err]
         /\ err' = "failed to process " \o Cur.path \o ": " \o out.err
         /\ Continue(Tail(pending))
    /\ readLog' = Append(readLog, Cur.node)
    /\ UNCHANGED <<mode, rootPath, excludes, dryRun, disk0, fault, stdin,
                   results, stdout, stderr, reported, jsonDoc, allowedEmojis, detVars, first>>

WalkProcessError ==
    /\ IsProcessed
    /\ \E out \in ProcessFile(allowedEmojis, disk, Cur.path, Cur.node, dryRun) :
         /\ out.err # ""
         /\ disk' = out.disk
         /\ last' = [result |-> out.result, err |-> out.err]
         /\ Abort("failed to process " \o Cur.path \o ": " \o out.err)
    /\ readLog' = Append(readLog, Cur.node)
    /\ UNCHANGED <<mode, rootPath, excludes, dryRun, disk0, fault, stdin,
                   results, stdout, stderr, reported, jsonDoc, allowedEmojis, detVars, first>>

----------------------------------------------------------------------------
(* processContentFromStdin *)

\* bufio.ScanLines drops one trailing carriage return from a token
DropCR(line) ==
    IF Len(line) > 0 /\ line[Len(line)] = \h0D
      THEN SubSeq(line, 1, Len(line) - 1)
      ELSE line

\* the tokens bufio.Scanner yields with its default split function ScanLines
RECURSIVE ScanLines(_)
ScanLines(bytes0) ==
    The({ IF bytes = <<>> THEN <<>>
          ELSE IF \E i \in 1..Len(bytes) : bytes[i] = \h0A
            THEN The({ <<DropCR(SubSeq(bytes, 1, i - 1))>>
                         \o ScanLines(SubSeq(bytes, i + 1, Len(bytes)))
                       : i \in {CHOOSE i \in 1..Len(bytes) :
                                  bytes[i] = \h0A
                                  /\ \A j \in 1..(i-1) : bytes[j] # \h0A} })
          ELSE <<DropCR(bytes)>>
          : bytes \in {bytes0} })

\* the content string processContentFromStdin assembles: every line followed
\* by a newline
WriteLines(lines) ==
    Concat([i \in 1..Len(lines) |-> lines[i] \o NewLine])

\* strings.TrimSuffix(s, "\n")
TrimNewLine(s) ==
    IF Len(s) > 0 /\ s[Len(s)] = \h0A THEN SubSeq(s, 1, Len(s) - 1) ELSE s

\* the tail of processContentFromStdin, once content has been assembled
ContentResult(dry, content, contentStr, emojis, cleanedContent) ==
    IF content = <<>> THEN [results |-> <<>>, printed |-> <<>>]
    ELSE IF Len(emojis) = 0 THEN [results |-> <<>>, printed |-> <<>>]
    ELSE [results |-> <<[FilePath     |-> "<stdin>",
                         EmojisFound  |-> emojis,
                         OriginalSize |-> Len(contentStr),
                         NewSize      |-> Len(cleanedContent),
                         Modified     |-> Len(emojis) > 0]>>,
          printed |-> IF ~dry THEN cleanedContent ELSE <<>>]

\* processContentFromStdin(processor, dryRun): [results, printed]
processContentFromStdin(allowed, input, dry) ==
    The({ The({ ContentResult(dry, content, contentStr, emojis, cleanedContent)
                : contentStr \in {TrimNewLine(content)},
                  emojis \in {FindEmojis(allowed, TrimNewLine(content))},
                  cleanedContent \in {RemoveEmojis(allowed, TrimNewLine(content))} })
          : content \in {WriteLines(ScanLines(input))} })

ContentFromStdin ==
    /\ pc = "start" /\ mode = "content"
    /\ \E out \in {processContentFromStdin(allowedEmojis, stdin, dryRun)} :
           /\ results' = out.results
           /\ stdout' = stdout \o out.printed
    /\ pc' = "returned"
    /\ UNCHANGED <<mode, rootPath, excludes, dryRun, disk, disk0, fault, stdin,
                   pending, err, last, readLog, stderr, reported, jsonDoc, allowedEmojis,
                   detVars, first>>

----------------------------------------------------------------------------
(* processFilePathsFromStdin *)

IsSpace(c) == c \in {" ", "\t", "\r", "\n"}

\* strings.TrimSpace
TrimSpace(s0) ==
    The({ LET keep == {i \in 1..Len(s) : ~IsSpace(Char(s, i))}
          IN IF keep = {} THEN ""
             ELSE SubSeq(s, CHOOSE i \in keep : \A j \in keep : i <= j,
                            CHOOSE i \in keep : \A j \in keep : j <= i)
          : s \in {s0} })

\* the nodes a path names when the tree is the working directory
NodesAt(filePath) == {n \in Nodes : WalkPath(".", n) = Clean(filePath)}

\* os.Stat(filePath) fails with an error os.IsNotExist accepts
IsNotExist(filePath) == NodesAt(filePath) = {}

\* the scanner has handed out a line: the loop goes on with `rest`, and
\* processFilePathsFromStdin returns when scanner.Scan() finds nothing more
NextLine(rest0) ==
    \E rest \in {rest0} :
        /\ pending' = rest
        /\ pc' = IF rest = <<>> THEN "returned" ELSE "scan"

\* the current line, trimmed
CurLine == TrimSpace(Head(pending))

StartList ==
    /\ pc = "start" /\ mode = "list"
    /\ NextLine(stdin)
    /\ UNCHANGED <<mode, rootPath, excludes, dryRun, disk, disk0, fault, stdin,
                   results, err, last, readLog, stdout, stderr, reported, jsonDoc,
                   allowedEmojis, detVars, first>>

ListBlank ==
    /\ pc = "scan" /\ mode = "list"
    /\ CurLine = ""
    /\ NextLine(Tail(pending))
    /\ UNCHANGED <<mode, rootPath, excludes, dryRun, disk, disk0, fault, stdin,
                   results, err, last, readLog, stdout, stderr, reported, jsonDoc,
                   allowedEmojis, detVars, first>>

ListNotExist ==
    /\ pc = "scan" /\ mode = "list"
    /\ CurLine # ""
    /\ IsNotExist(CurLine)
    /\ stderr' = Append(stderr, "Warning: file does not exist: " \o CurLine)
    /\ NextLine(Tail(pending))
    /\ UNCHANGED <<mode, rootPath, excludes, dryRun, disk, disk0, fault, stdin,
                   results, err, last, readLog, stdout, reported, jsonDoc,
                   allowedEmojis, detVars, first>>

\* ListProcess passing over, without a warning, a path the walk would filter
\* out: one that is excluded, in a version-control directory or skipped
ListProcessFiltering ==
    /\ pc = "scan" /\ mode = "list"
    /\ CurLine # ""
    /\ \E n \in NodesAt(CurLine) :
         IF \/ isExcluded(excludes, CurLine)
            \/ InVCSDir(CurLine)
            \/ shouldSkipFile(disk, CurLine, n)
           THEN UNCHANGED <<disk, last, results, readLog>>
           ELSE /\ \E out \in ProcessFile(allowedEmojis, disk, CurLine, n, dryRun) :
                     /\ out.err = ""
                     /\ disk' = out.disk
                     /\ last' = [result |-> out.result, err |-> out.err]
                     /\ results' = IF Len(out.result.EmojisFound) > 0
                                     THEN Append(results, out.result)
                                     ELSE results
                /\ readLog' = Append(readLog, n)
    /\ NextLine(Tail(pending))
    /\ UNCHANGED <<mode, rootPath, excludes, dryRun, disk0, fault, stdin,
                   err, stdout, stderr, reported, jsonDoc, allowedEmojis, detVars, first>>

ListProcess ==
    /\ pc = "scan" /\ mode = "list"
    /\ CurLine # ""
    /\ \E n \in NodesAt(CurLine) :
         /\ \E out \in ProcessFile(allowedEmojis, disk, CurLine, n, dryRun) :
              /\ out.err = ""
              /\ disk' = out.disk
              /\ last' = [result |-> out.result, err |-> out.err]
              /\ results' = IF Len(out.result.EmojisFound) > 0
                              THEN Append(results, out.result)
                              ELSE results
         /\ readLog' = Append(readLog, n)
    /\ NextLine(Tail(pending))
    /\ UNCHANGED <<mode, rootPath, excludes, dryRun, disk0, fault, stdin,
                   err, stdout, stderr, reported, jsonDoc, allowedEmojis, detVars, first>>

\* reading standard input fails: scanner.Scan() stops, scanner.Err() is not
\* nil, and processFilePathsFromStdin returns (nil, error)
ListScanError ==
    /\ pc = "scan" /\ mode = "list"
    /\ Faulty("stdin", "read")
    /\ results' = <<>>
    /\ err' = "error reading from stdin: read failed"
    /\ pending' = <<>>
    /\ pc' = "returned"
    /\ UNCHANGED <<mode, rootPath, excludes, dryRun, disk, disk0, fault, stdin,
                   last, readLog, stdout, stderr, reported, jsonDoc, allowedEmojis, detVars, first>>

\* ListProcessError returning the error instead of printing a warning
ListProcessErrorAborting ==
    /\ pc = "scan" /\ mode = "list"
    /\ CurLine # ""
    /\ \E n \in NodesAt(CurLine) :
         /\ \E out \in ProcessFile(allowedEmojis, disk, CurLine, n, dryRun) :
              /\ out.err # ""
              /\ disk' = out.disk
              /\ last' = [result |-> out.result, err |-> out.err]
              /\ err' = "failed to process " \o CurLine \o ": " \o out.err
         /\ readLog' = Append(readLog, n)
    /\ pending' = Tail(pending)
    /\ pc' = "returned"
    /\ UNCHANGED <<mode, rootPath, excludes, dryRun, disk0, fault, stdin,
                   results, stdout, stderr, reported, jsonDoc, allowedEmojis, detVars, first>>

ListProcessError ==
    /\ pc = "scan" /\ mode = "list"
    /\ CurLine # ""
    /\ \E n \in NodesAt(CurLine) :
         /\ \E out \in ProcessFile(allowedEmojis, disk, CurLine, n, dryRun) :
              /\ out.err # ""
              /\ disk' = out.disk
              /\ last' = [result |-> out.result, err |-> out.err]
              /\ stderr' = Append(stderr, "Warning: failed to process "
                                            \o CurLine \o ": " \o out.err)
         /\ readLog' = Append(readLog, n)
    /\ NextLine(Tail(pending))
    /\ UNCHANGED <<mode, rootPath, excludes, dryRun, disk0, fault, stdin,
                   results, err, stdout, reported, jsonDoc, allowedEmojis, detVars, first>>

----------------------------------------------------------------------------
(* DestroyEmojis, after processInput has returned *)

\* ExitWithError handing the results to outputResults before the error is
\* returned
ExitWithErrorReporting ==
    /\ pc = "returned"
    /\ err # ""
    /\ reported' = results
    /\ jsonDoc' = <<>>
    /\ pc' = "done"
    /\ UNCHANGED <<mode, rootPath, excludes, dryRun, disk, disk0, fault, stdin,
                   pending, results, err, last, readLog, stdout, stderr,
                   allowedEmojis, detVars, first>>

\* processInput returned an error: DestroyEmojis returns it, outputResults
\* is not reached
ExitWithError ==
    /\ pc = "returned"
    /\ err # ""
    /\ pc' = "done"
    /\ UNCHANGED <<mode, rootPath, excludes, dryRun, disk, disk0, fault, stdin,
                   pending, results, err, last, readLog, stdout, stderr, reported, jsonDoc,
                   allowedEmojis, detVars, first>>

\* the JSONFileInfo outputJSON builds from a result: NewSize is set only for a
\* modified result and is the zero value otherwise
JSONFileInfo(result) ==
    [FilePath     |-> result.FilePath,
     EmojisFound  |-> result.EmojisFound,
     OriginalSize |-> result.OriginalSize,
     NewSize      |-> IF result.Modified THEN result.NewSize ELSE 0,
     Modified     |-> result.Modified]

\* the JSON object encoding/json writes for a JSONFileInfo: a function from
\* the keys written to their values.  new_size is tagged omitempty, so it is
\* written only when NewSize is not the zero value.
MarshalFileInfo(fileInfo) ==
    IF fileInfo.NewSize # 0
      THEN [file_path     |-> fileInfo.FilePath,
            emojis_found  |-> fileInfo.EmojisFound,
            original_size |-> fileInfo.OriginalSize,
            new_size      |-> fileInfo.NewSize,
            modified      |-> fileInfo.Modified]
      ELSE [file_path     |-> fileInfo.FilePath,
            emojis_found  |-> fileInfo.EmojisFound,
            original_size |-> fileInfo.OriginalSize,
            modified      |-> fileInfo.Modified]

RECURSIVE TotalEmojis(_)
TotalEmojis(rs0) ==
    The({ IF rs = <<>> THEN 0 ELSE Len(Head(rs).EmojisFound) + TotalEmojis(Tail(rs))
          : rs \in {rs0} })

\* outputJSON(results, config): the document printed (--list-only is not
\* modelled, so the mode is "process")
outputJSON(rs, dry) ==
    [summary |-> [total_files  |-> Len(rs),
                  total_emojis |-> TotalEmojis(rs),
                  dry_run      |-> dry,
                  mode         |-> "process"],
     files   |-> [i \in 1..Len(rs) |-> MarshalFileInfo(JSONFileInfo(rs[i]))]]

\* the values of --output
OutputFormats == {"text", "json"}

OutputResults ==
    /\ pc = "returned"
    /\ err = ""
    /\ reported' = results
    /\ \E output \in OutputFormats :
         jsonDoc' = IF output = "json" THEN <<outputJSON(results, dryRun)>> ELSE <<>>
    /\ pc' = "done"
    /\ UNCHANGED <<mode, rootPath, excludes, dryRun, disk, disk0, fault, stdin,
                   pending, results, err, last, readLog, stdout, stderr,
                   allowedEmojis, detVars, first>>

Next ==
    \/ StartNotExist
    \/ StartWalk
    \/ WalkLstatError
    \/ WalkExcluded
    \/ WalkDirectory
    \/ WalkReadDirError
    \/ WalkVCS
    \/ WalkSkipped
    \/ WalkProcess
    \/ WalkProcessError
    \/ ContentFromStdin
    \/ ExitWithError
    \/ OutputResults

Spec == Init /\ [][Next]_vars

----------------------------------------------------------------------------
(* The detector on its own: FindEmojis and RemoveEmojis applied to a text *)

Chunks == {LetterH, Sun, Grin, Tile, Accent, BadByte}

Texts == {Concat(cs) : cs \in SeqsUpTo(Chunks, MaxTextLen)}

DetectorAllowSets == {{}, {Sun}, {Tile}, {Sun, Grin}, {LetterH}}

RunIdle ==
    /\ mode = "detector" /\ rootPath = "" /\ excludes = <<>> /\ dryRun = TRUE
    /\ disk = <<>> /\ disk0 = <<>> /\ fault = NoFault /\ stdin = <<>>
    /\ pc = "idle" /\ pending = <<>> /\ results = <<>> /\ err = ""
    /\ last = NoLast /\ readLog = <<>> /\ stdout = <<>> /\ stderr = <<>> /\ reported = <<>> /\ jsonDoc = <<>> /\ first = <<>>

InitDetector ==
    /\ text \in Texts
    /\ allowedEmojis \in DetectorAllowSets
    /\ found = <<>>
    /\ cleaned = <<>>
    /\ dpc = "new"
    /\ RunIdle

DetectorFind ==
    /\ dpc \in {"new", "removed"}
    /\ found' = FindEmojis(allowedEmojis, text)
    /\ dpc' = IF dpc = "new" THEN "found" ELSE "both"
    /\ UNCHANGED <<text, cleaned, allowedEmojis, walkVars>>

DetectorRemove ==
    /\ dpc \in {"new", "found"}
    /\ cleaned' = RemoveEmojis(allowedEmojis, text)
    /\ dpc' = IF dpc = "new" THEN "removed" ELSE "both"
    /\ UNCHANGED <<text, found, allowedEmojis, walkVars>>

NextDetector == DetectorFind \/ DetectorRemove

SpecDetector == InitDetector /\ [][NextDetector]_vars

----------------------------------------------------------------------------
(* The detector on arbitrary byte strings: pieces of a UTF-8 sequence that   *)
(* are no code point on their own stand next to whole code points            *)

Robot == EncodeRune(\h1F916)       \* in two classes of emojiPattern and in isEmoji
Lead  == <<\hF0, \h9F>>            \* the first two bytes of a 4-byte sequence
Trail == <<\h80, \h98>>            \* Lead \o Trail is U+1F018

RawChunks == {LetterH, Sun, Robot, Lead, Trail, BadByte}

RawTexts == {Concat(cs) : cs \in SeqsUpTo(RawChunks, MaxTextLen)}

VS16  == EncodeRune(\hFE0F)        \* variation selector-16

\* no entry; one that occurs in no text; one of two code points, an emoji and
\* its variation selector; an emoji together with an entry of two emojis
RawAllowSets == {{}, {Grin}, {Sun \o VS16}, {Sun, Sun \o Robot}}

InitRaw ==
    /\ text \in RawTexts
    /\ allowedEmojis \in RawAllowSets
    /\ found = <<>>
    /\ cleaned = <<>>
    /\ dpc = "new"
    /\ RunIdle

SpecRaw == InitRaw /\ [][NextDetector]_vars

----------------------------------------------------------------------------
(* The command given the path of one file system entry: WalkDir hands the  *)
(* callback that entry alone, with the path as it was given                *)

\* what the entry is, as os.Lstat sees it; for a symbolic link, what it
\* leads to.  content and perm of a symlink-file are those of its target,
\* which os.ReadFile, os.WriteFile and os.Chmod reach through the link.
EntryKinds ==
    {"file", "symlink-file", "symlink-dir", "symlink-dangling",
     "fifo", "socket", "device"}

EntryDirs == {"", "proj/", "v1.png/"}

EntryNames ==
    {"f.exe", "f.bin", "f.so", "f.dll", "f.jpg", "f.jpeg", "f.png", "f.gif",
     "f.bmp", "f.mp3", "f.mp4", "f.avi", "f.mov", "f.zip", "f.tar", "f.gz",
     "f.7z", "f.pdf", "f.sock"}
    \cup {"f.txt", "f.md", "f.json", "f.go", "f", "Makefile", "f.PNG", "f.Jpg",
          "f.tar.gz", "f.png.txt", "f.png~", "f.", ".png", "fpng", "f.socks"}

InitEntry ==
    /\ mode = "dir"
    /\ rootPath \in {d \o name : d \in EntryDirs, name \in EntryNames}
    /\ excludes = <<>>
    /\ allowedEmojis = {}
    /\ dryRun \in BOOLEAN
    /\ disk \in {[n \in {"root"} |-> [kind |-> k, content |-> MixText, perm |-> \o644]]
                   : k \in EntryKinds}
    /\ disk0 = disk
    /\ fault = NoFault
    /\ stdin = <<>>
    /\ pc = "start"
    /\ pending = <<>>
    /\ results = <<>>
    /\ err = ""
    /\ last = NoLast
    /\ readLog = <<>>
    /\ stdout = <<>>
    /\ stderr = <<>>
    /\ reported = <<>> /\ jsonDoc = <<>> /\ first = <<>>
    /\ DetectorIdle

NextEntry == StartWalk \/ WalkSkipped \/ WalkProcess \/ OutputResults

SpecEntry == InitEntry /\ [][NextEntry]_vars

----------------------------------------------------------------------------
(* The command given the path of one regular file and one exclusion        *)
(* pattern: the callback's isExcluded test decides whether the file is read *)

MatchPaths ==
    {"b.txt", "src/b.txt", "./src/b.txt", "proj/src/b.txt", "proj/srcx/b.txt",
     "proj/src/lib/b.txt", "/w/proj/src/b.txt", "/w/project/b.txt", "/w/proj",
     "/w/src"}

RelativePatterns ==
    {"src", "b.txt", "./src/", "sr", "txt", "proj", "src/b.txt", "proj/src",
     "lib/b.txt", "*.txt", "b.???", "s*", "s*/b.txt", "*/src/*", "sr?", "*"}

AbsolutePatterns ==
    {"/w/proj", "/w/proj/", "/w/proj/src", "/w/proj/src/b.txt", "/w/pro",
     "/w/*", "/w/proj/*/b.txt", "/src", "/b.txt", "/"}

InitMatch ==
    /\ mode = "dir"
    /\ rootPath \in MatchPaths
    /\ excludes \in {<<p>> : p \in RelativePatterns \cup AbsolutePatterns}
    /\ allowedEmojis = {}
    /\ dryRun = FALSE
    /\ disk = [n \in {"root"} |-> File(MixText, \o644)]
    /\ disk0 = disk
    /\ fault = NoFault
    /\ stdin = <<>>
    /\ pc = "start"
    /\ pending = <<>>
    /\ results = <<>>
    /\ err = ""
    /\ last = NoLast
    /\ readLog = <<>>
    /\ stdout = <<>>
    /\ stderr = <<>>
    /\ reported = <<>> /\ jsonDoc = <<>> /\ first = <<>>
    /\ DetectorIdle

NextMatch == StartWalk \/ WalkExcluded \/ WalkProcess \/ OutputResults

SpecMatch == InitMatch /\ [][NextMatch]_vars

----------------------------------------------------------------------------
(* The command reading a list of paths from standard input *)

MaxListLen == 3

\* lines of a file list: regular files, a path with blanks around it, a path
\* that names nothing, an empty line, a directory, a binary by extension
ListLines == {"a.txt", " src/b.txt\t", "nope.txt", "", "src", "src/p.png"}

ListInputs == SeqsUpTo(ListLines, MaxListLen)

\* a.txt holds no emoji, src/b.txt holds emojis and a letter, src/p.png holds
\* nothing but emojis
ListDisks ==
    {[d EXCEPT !["srcp"].content = Sun \o Grin] :
        d \in {d \in Disks : d["a"].content = CleanText /\ d["srcb"].content = MixText}}

ListFaults ==
    {NoFault, [node |-> "a", op |-> "read"], [node |-> "srcb", op |-> "write"],
     [node |-> "stdin", op |-> "read"]}

InitList ==
    /\ mode = "list"
    /\ rootPath = "-"
    /\ excludes = <<>>
    /\ allowedEmojis = {}
    /\ dryRun \in BOOLEAN
    /\ disk \in ListDisks
    /\ fault \in ListFaults
    /\ stdin \in ListInputs
    /\ disk0 = disk
    /\ pc = "start"
    /\ pending = <<>>
    /\ results = <<>>
    /\ err = ""
    /\ last = NoLast
    /\ readLog = <<>>
    /\ stdout = <<>>
    /\ stderr = <<>>
    /\ reported = <<>> /\ jsonDoc = <<>> /\ first = <<>>
    /\ DetectorIdle

NextList ==
    \/ StartList
    \/ ListBlank
    \/ ListNotExist
    \/ ListProcess
    \/ ListProcessError
    \/ ListScanError
    \/ ExitWithError
    \/ OutputResults

SpecList == InitList /\ [][NextList]_vars

----------------------------------------------------------------------------
(* The command given, as a file list, paths the walk would not process *)

\* a file in a version-control directory, a file with a skipped extension, a
\* file in a directory the exclusion list names, a file a glob of it matches
DirectLines == {"./.git/config", "src/p.png", "node_modules/index.js", "a.txt"}

InitDirect ==
    /\ mode = "list"
    /\ rootPath = "-"
    /\ excludes \in ExcludeLists \ {<<>>}
    /\ allowedEmojis = {}
    /\ dryRun \in BOOLEAN
    /\ disk \in ListDisks
    /\ fault = NoFault
    /\ stdin \in SeqsUpTo(DirectLines, MaxListLen)
    /\ disk0 = disk
    /\ pc = "start"
    /\ pending = <<>>
    /\ results = <<>>
    /\ err = ""
    /\ last = NoLast
    /\ readLog = <<>>
    /\ stdout = <<>>
    /\ stderr = <<>>
    /\ reported = <<>>
    /\ jsonDoc = <<>>
    /\ first = <<>>
    /\ DetectorIdle

NextDirect == StartList \/ ListProcess \/ OutputResults

SpecDirect == InitDirect /\ [][NextDirect]_vars

----------------------------------------------------------------------------
(* The walk with exclusion patterns that name a part of the root path *)

NamedRootPaths == {".", "proj", "/w/proj", "../proj"}

\* the last segment of a root path, a segment before it, the same with a dot
\* segment and a trailing separator, a directory of the tree, the root `.`
RootPatterns == {"proj", "w", "./proj/", "src", "."}

InitRoot ==
    /\ mode = "dir"
    /\ rootPath \in NamedRootPaths
    /\ excludes \in {<<p>> : p \in RootPatterns}
    /\ allowedEmojis = {}
    /\ dryRun \in BOOLEAN
    /\ disk \in {d \in Disks : d["a"].content = MixText /\ d["srcb"].content = MixText}
    /\ fault = NoFault
    /\ stdin = <<>>
    /\ disk0 = disk
    /\ pc = "start"
    /\ pending = <<>>
    /\ results = <<>>
    /\ err = ""
    /\ last = NoLast
    /\ readLog = <<>>
    /\ stdout = <<>>
    /\ stderr = <<>>
    /\ reported = <<>>
    /\ jsonDoc = <<>>
    /\ first = <<>>
    /\ DetectorIdle

NextRoot ==
    \/ StartWalk
    \/ WalkExcluded
    \/ WalkDirectory
    \/ WalkVCS
    \/ WalkSkipped
    \/ WalkProcess
    \/ OutputResults

SpecRoot == InitRoot /\ [][NextRoot]_vars

----------------------------------------------------------------------------
(* The command run a second time on the tree the first run left behind *)

\* a file whose emoji stands between the two halves of a 4-byte sequence
FuseText == Lead \o Sun \o Trail

TwiceDisks ==
    {[d EXCEPT !["a"].content = ca] :
        ca \in {CleanText, MixText, FuseText},
        d \in {d \in Disks : d["a"].content = CleanText
                             /\ d["srcb"].content \in {MixText, BadText}}}

TwiceFaults == {NoFault, [node |-> "a", op |-> "read"], [node |-> "srcb", op |-> "write"]}

InitTwice ==
    /\ mode = "dir"
    /\ rootPath \in RootPaths
    /\ excludes \in ExcludeLists
    /\ allowedEmojis \in AllowSets
    /\ dryRun \in BOOLEAN
    /\ disk \in TwiceDisks
    /\ fault \in TwiceFaults
    /\ stdin = <<>>
    /\ disk0 = disk
    /\ pc = "start"
    /\ pending = <<>>
    /\ results = <<>>
    /\ err = ""
    /\ last = NoLast
    /\ readLog = <<>>
    /\ stdout = <<>>
    /\ stderr = <<>>
    /\ reported = <<>>
    /\ jsonDoc = <<>>
    /\ first = <<>>
    /\ DetectorIdle

\* the first run is over: the command is started again with the same root,
\* exclusion list and allow list, on the tree as it is now
Rerun ==
    /\ mode = "dir" /\ pc = "done"
    /\ first = <<>>
    /\ first' = <<[results |-> results, err |-> err, dryRun |-> dryRun]>>
    /\ dryRun' \in BOOLEAN
    /\ disk0' = disk
    /\ pc' = "start"
    /\ pending' = <<>>
    /\ results' = <<>>
    /\ err' = ""
    /\ last' = NoLast
    /\ readLog' = <<>>
    /\ reported' = <<>>
    /\ jsonDoc' = <<>>
    /\ UNCHANGED <<mode, rootPath, excludes, disk, fault, stdin, stdout, stderr,
                   allowedEmojis, detVars>>

NextTwice ==
    \/ StartWalk
    \/ WalkExcluded
    \/ WalkDirectory
    \/ WalkVCS
    \/ WalkSkipped
    \/ WalkProcess
    \/ WalkProcessError
    \/ ExitWithError
    \/ OutputResults
    \/ Rerun

SpecTwice == InitTwice /\ [][NextTwice]_vars

----------------------------------------------------------------------------
(* Vocabulary of the properties *)

\* the nodes of the tree in the order WalkDir visits them
RECURSIVE TreeOrder(_)
TreeOrder(n) ==
    IF n \in DirNodes
      THEN <<n>> \o Concat([i \in 1..Len(ReadDir[n]) |-> TreeOrder(ReadDir[n][i])])
      ELSE <<n>>

PreOrder == TreeOrder("root")

Pos(n) == CHOOSE i \in 1..Len(PreOrder) : PreOrder[i] = n

\* node n lies somewhere below directory d
RECURSIVE IsBelow(_, _)
IsBelow(n, d) == n # "root" /\ (Parent[n] = d \/ IsBelow(Parent[n], d))

PathOf(n) == WalkPath(rootPath, n)

NodeOfPath(p) == CHOOSE n \in Nodes : PathOf(n) = p

ResultPaths == [i \in 1..Len(results) |-> results[i].FilePath]

\* n has an ancestor directory named .git, .svn or .hg
UnderVCS(n) ==
    \E d \in DirNodes \ {"root"} :
        NodeName[d] \in {".git", ".svn", ".hg"} /\ IsBelow(n, d)

\* n or a directory above it matches an exclusion pattern
Excluded(n) ==
    \E m \in Nodes : (m = n \/ IsBelow(n, m)) /\ isExcluded(excludes, PathOf(m))

\* a file the walk is to hand to ProcessFile
Eligible(n) ==
    /\ n \in FileNodes
    /\ ~UnderVCS(n)
    /\ ~Excluded(n)
    /\ ~shouldSkipFile(disk0, PathOf(n), n)

\* the content of n before the run has qualifying emojis
HadEmojis(n) == FindEmojis(allowedEmojis, disk0[n].content) # <<>>

\* n is as a successful rewrite leaves it
Rewritten(n) ==
    /\ disk[n].content = RemoveEmojis(allowedEmojis, disk0[n].content)
    /\ disk[n].perm = \o600

Untouched(n) == disk[n] = disk0[n]

\* the subsequence of the node sequence `nodes` that satisfies Keep, as paths
PathsOf(nodes, Keep(_)) ==
    LET F[k \in 0..Len(nodes)] ==
          IF k = 0 THEN <<>>
          ELSE IF Keep(nodes[k]) THEN Append(F[k-1], PathOf(nodes[k])) ELSE F[k-1]
    IN  F[Len(nodes)]

Returned == mode = "dir" /\ pc \in {"returned", "done"}

\* the file ProcessFile was last called on
LastNode == NodeOfPath(last.result.FilePath)

Called == mode = "dir" /\ last.result.FilePath # ""

----------------------------------------------------------------------------
(* Properties *)

\* C1: preview never mutates.  With previewOnly = true the bytes and the
\* permission bits of every file are, at every point of the run, what they
\* were before it, also for files that hold qualifying emojis.
C1_PreviewNeverMutates == dryRun => disk = disk0

C1_Witness ==
    /\ mode = "dir" /\ dryRun /\ pc = "done" /\ err = ""
    /\ \E i \in 1..Len(results) :
         results[i].Modified /\ results[i].NewSize < results[i].OriginalSize

\* C2: for every root path and exclusion list, a file below a directory named
\* .git, .svn or .hg is never handed to ProcessFile, never appears in the
\* results and is never modified.
C2_VCSFilesNeverProcessed ==
    mode = "dir" =>
        \A n \in FileNodes :
            UnderVCS(n) => /\ ~Contains(readLog, n)
                           /\ ~Contains(ResultPaths, PathOf(n))
                           /\ Untouched(n)

\* C3: when ProcessFile(path, false) succeeds on a file with a qualifying
\* emoji, the file holds RemoveEmojis of its former content, its mode is
\* exactly 0600, and the result has Modified = true and NewSize the length
\* of the cleaned content.
C3_RewriteAndMode ==
    (Called /\ ~dryRun /\ last.err = "" /\ HadEmojis(LastNode)) =>
        /\ Rewritten(LastNode)
        /\ last.result.Modified
        /\ last.result.NewSize = Len(disk[LastNode].content)

C3_Witness ==
    /\ Called /\ ~dryRun /\ last.err = "" /\ HadEmojis(LastNode)
    /\ disk0[LastNode].perm = \o755
    /\ disk[LastNode].perm = \o600
    /\ disk[LastNode].content # disk0[LastNode].content

\* C4: when a file holds no qualifying emoji, ProcessFile writes nothing for
\* either value of previewOnly: bytes and mode are unchanged, Modified is
\* false, EmojisFound is empty, OriginalSize is the length of the file and
\* NewSize is zero.
C4_NoEmojiNoWrite ==
    (Called /\ last.err = "" /\ ~HadEmojis(LastNode)) =>
        /\ Untouched(LastNode)
        /\ ~last.result.Modified
        /\ last.result.EmojisFound = <<>>
        /\ last.result.OriginalSize = Len(disk0[LastNode].content)
        /\ last.result.NewSize = 0

\* the file holds an emoji, but an allowed one, and its mode is not 0600
C4_Witness ==
    /\ Called /\ ~dryRun /\ last.err = "" /\ ~HadEmojis(LastNode)
    /\ disk0[LastNode].content = SunText
    /\ disk[LastNode].perm = \o644

\* C5: the walk does not descend into a directory that matches an exclusion
\* pattern: no file of its subtree is read, reported or modified; and when
\* the walk returns without error, every eligible file with emojis outside
\* the excluded directories is in the results.
C5_ExcludedDirPruned ==
    mode = "dir" =>
        /\ \A d \in DirNodes, n \in FileNodes :
             (isExcluded(excludes, PathOf(d)) /\ IsBelow(n, d)) =>
                 /\ ~Contains(readLog, n)
                 /\ ~Contains(ResultPaths, PathOf(n))
                 /\ Untouched(n)
        /\ (Returned /\ err = "") =>
             \A n \in FileNodes :
                 (Eligible(n) /\ HadEmojis(n)) => Contains(ResultPaths, PathOf(n))

\* src matches the pattern sr? by its base name only; src/b.txt matches nothing
C5_Witness ==
    /\ Returned /\ pc = "done" /\ err = "" /\ ~dryRun
    /\ isExcluded(excludes, PathOf("src"))
    /\ ~isExcluded(excludes, PathOf("srcb"))
    /\ HadEmojis("srcb") /\ Untouched("srcb")
    /\ Contains(ResultPaths, PathOf("nmi")) /\ Rewritten("nmi")

\* C6: with previewOnly = false, when ProcessFile fails on a file the walk
\* stops there and returns an error that wraps the cause; the files with
\* emojis processed before it stay rewritten, every eligible file before it
\* was processed, and no file after it in traversal order is read or modified.
C6_WalkStopsAtFailure ==
    (Called /\ ~dryRun /\ last.err # "") =>
        /\ Returned
        /\ err = "failed to process " \o last.result.FilePath \o ": " \o last.err
        /\ readLog[Len(readLog)] = LastNode
        /\ \A n \in FileNodes :
             /\ Pos(n) > Pos(LastNode) => ~Contains(readLog, n) /\ Untouched(n)
             /\ Pos(n) < Pos(LastNode) =>
                  /\ Eligible(n) => Contains(readLog, n)
                  /\ (Contains(readLog, n) /\ HadEmojis(n)) => Rewritten(n)
                  /\ (Contains(readLog, n) /\ ~HadEmojis(n)) => Untouched(n)

\* b.txt cannot be written; a.txt, visited before it, stays rewritten
C6_Witness ==
    /\ Called /\ ~dryRun /\ last.err # "" /\ pc = "done"
    /\ LastNode = "srcb"
    /\ HadEmojis("a") /\ Rewritten("a") /\ ~Untouched("a")
    /\ Untouched("srcp")

\* the nodes ProcessFile returned from without error, in order
Succeeded ==
    IF last.err # "" THEN SubSeq(readLog, 1, Len(readLog) - 1) ELSE readLog

\* C7 as stated: whenever ProcessDirectory returns an error, the result
\* sequence it returns is empty.
C7_ErrorMeansNoResults == (Returned /\ err # "") => results = <<>>

\* C7 amended: when ProcessDirectory returns an error because the root cannot
\* be traversed, the result sequence it returns is empty; when a file or a
\* subdirectory fails during the walk, it returns with the error the results
\* of the files with emojis processed before the failure, and DestroyEmojis
\* hands none of them to the output.
C7_PartialResultsDiscarded ==
    (Returned /\ err # "") =>
        /\ reported = <<>> /\ jsonDoc = <<>> /\ first = <<>>
        /\ fault.node = "root" => results = <<>>
        /\ ResultPaths = PathsOf(Succeeded, HadEmojis)

C7_Witness ==
    /\ Returned /\ pc = "done" /\ err # ""
    /\ results # <<>>
    /\ reported = <<>> /\ jsonDoc = <<>> /\ first = <<>>

\* a result agrees with the content it was made from
ResultOK(r, original) ==
    /\ r.Modified <=> Len(r.EmojisFound) > 0
    /\ Len(r.EmojisFound) > 0 =>
         r.NewSize = Len(RemoveEmojis(allowedEmojis, original))

\* C8: in every ProcessResult of ProcessFile, of ProcessDirectory and of the
\* stdin-content path, Modified is true exactly when EmojisFound is not
\* empty, and then NewSize is the byte length of the cleaned content, in
\* preview as well.
C8_ModifiedIffEmojis ==
    /\ mode = "dir" =>
         /\ \A i \in 1..Len(results) :
              ResultOK(results[i], disk0[NodeOfPath(results[i].FilePath)].content)
         /\ Called => ResultOK(last.result, disk0[LastNode].content)
    /\ mode = "content" =>
         \A i \in 1..Len(results) :
             ResultOK(results[i], TrimNewLine(WriteLines(ScanLines(stdin))))

C8_Witness ==
    /\ Called /\ dryRun /\ last.err = ""
    /\ Len(last.result.EmojisFound) > 0
    /\ last.result.Modified
    /\ last.result.NewSize = Len(RemoveEmojis(allowedEmojis, disk0[LastNode].content))
    /\ Contains(results, last.result)

\* C9: when ProcessDirectory returns without error, the results hold exactly
\* one entry for each file that is not excluded, not under a VCS directory,
\* eligible under the skip policy and has a qualifying emoji, in traversal
\* order; eligible files without emojis are read and not reported.
C9_ResultsAreTheEligibleEmojiFiles ==
    (Returned /\ err = "") =>
        /\ ResultPaths = PathsOf(PreOrder, LAMBDA n : Eligible(n) /\ HadEmojis(n))
        /\ \A n \in FileNodes :
             (Eligible(n) /\ ~HadEmojis(n)) =>
                 Contains(readLog, n) /\ ~Contains(ResultPaths, PathOf(n))

\* e lies in an emoji range of the detector
InEmojiRange(e) == isEmoji(e) \/ RegexMatchesRune(e)

Count(seq, x) == Cardinality({i \in 1..Len(seq) : seq[i] = x})

Kept(r) == ~InEmojiRange(r) \/ EncodeRune(r) \in allowedEmojis

\* the subsequence of the code points rs that satisfies Keep
SelectRunes(rs0, Keep(_)) ==
    The({ LET F[k \in 0..Len(rs)] ==
                IF k = 0 THEN <<>>
                ELSE IF Keep(rs[k]) THEN Append(F[k-1], rs[k]) ELSE F[k-1]
          IN  F[Len(rs)] : rs \in {rs0} })

\* C11: preservation.  For every text and allow set, RemoveEmojis(t) is the
\* subsequence of the code points of t that are outside the emoji ranges or
\* allowed: same order, same count, each in its own encoding, nothing put
\* where a code point was removed.
C11_Preservation ==
    dpc \in {"removed", "both"} =>
        \E kept \in {SelectRunes(ToRunes(text), Kept)} :
            /\ ToRunes(cleaned) = kept
            /\ cleaned = RunesToString(kept)

\* C12: RemoveEmojis is idempotent for every text and allow set:
\* RemoveEmojis(RemoveEmojis(t)) = RemoveEmojis(t).
C12_Idempotent ==
    dpc \in {"removed", "both"} => RemoveEmojis(allowedEmojis, cleaned) = cleaned

\* the strings of seq, each at its first occurrence only
FirstOccurrences(seq0) ==
    The({ LET F[k \in 0..Len(seq)] ==
                IF k = 0 THEN <<>>
                ELSE IF Contains(F[k-1], seq[k]) THEN F[k-1] ELSE Append(F[k-1], seq[k])
          IN  F[Len(seq)] : seq \in {seq0} })

\* C13: FindEmojis(t) holds each code point of t that lies in an emoji range
\* and is not allowed exactly once, as a one-character string, in the order
\* of first occurrence in t; other code points contribute nothing, and the
\* empty text gives the empty sequence.
C13_DistinctFirstOccurrence ==
    dpc \in {"found", "both"} =>
        \E q \in {SelectRunes(ToRunes(text), LAMBDA r : ~Kept(r))} :
            found = FirstOccurrences([k \in 1..Len(q) |-> EncodeRune(q[k])])

C13_Witness ==
    /\ dpc = "found"
    /\ allowedEmojis = {}
    /\ text = Grin \o Sun \o Grin
    /\ found = <<Grin, Sun>>


\* C14: every entry that is not a regular file is skipped, whatever it is or
\* leads to (socket, device, named pipe, symbolic link, also one whose target
\* is a regular file): it is never read, never reported, never written.
C14_NonRegularNeverProcessed ==
    \A n \in DOMAIN disk :
        disk0[n].kind # "file" =>
            /\ ~Contains(readLog, n)
            /\ results = <<>>
            /\ disk[n] = disk0[n]

\* the deny list as the documentation gives it
DenyList ==
    {".exe", ".bin", ".so", ".dll", ".jpg", ".jpeg", ".png", ".gif", ".bmp",
     ".mp3", ".mp4", ".avi", ".mov", ".zip", ".tar", ".gz", ".7z", ".pdf", ".sock"}

\* the path ends in an extension of the deny list, letter case as given
EndsInDenied(path) == \E e \in DenyList : HasSuffix(path, e)

\* C15: for an existing regular file shouldSkipFile is true exactly when the
\* final extension of the path, compared case-sensitively, is in the deny
\* list, and false for any other extension and for names without one; a file
\* skipped so is never read, reported or modified.
C15_DenyByExtension ==
    disk0["root"].kind = "file" =>
        /\ shouldSkipFile(disk0, rootPath, "root") <=> EndsInDenied(rootPath)
        /\ EndsInDenied(rootPath) =>
             readLog = <<>> /\ results = <<>> /\ disk = disk0
        /\ (~EndsInDenied(rootPath) /\ pc \in {"returned", "done"}) =>
             readLog = <<"root">>

C15_Witness ==
    /\ disk0["root"].kind = "file" /\ ~dryRun /\ pc = "done"
    /\ rootPath = "proj/f.sock"
    /\ readLog = <<>> /\ disk = disk0


\* the four ways a relative pattern matches, on normalized path and pattern
RelativeRules(path, pattern) ==
    \/ path = pattern
    \/ \E i \in 1..Len(Split(path)) : Split(path)[i] = pattern
    \/ Base(path) = pattern
    \/ /\ StrContains(pattern, "*") \/ StrContains(pattern, "?")
       /\ Match(pattern, path) \/ Match(pattern, Base(path))

\* the path ends with a separator followed by the pattern
TailRule(path, pattern) == HasSuffix(path, "/" \o pattern)

\* the file was passed over: the walk is over and nothing was read
PassedOver == pc \in {"returned", "done"} /\ readLog = <<>>

Processed == pc \in {"returned", "done"} /\ readLog = <<"root">>

\* C16 as stated: a relative pattern matches exactly when path equals pattern,
\* a segment of path equals pattern, the base name equals pattern, or pattern
\* has * or ? and a glob match succeeds on the path or its base name; no
\* other rule makes it match.
C16_RelativeRulesOnly ==
    \E path \in {Clean(rootPath)}, pattern \in {Clean(excludes[1])} :
        ~IsAbs(pattern) =>
            /\ PassedOver => RelativeRules(path, pattern)
            /\ Processed => ~RelativeRules(path, pattern)

\* C16 amended: a relative pattern matches exactly when one of the four rules
\* holds or the path ends with a separator followed by the pattern, which
\* lets a pattern of several segments match the tail of a path.
C16_RelativeRulesAndTail ==
    \E path \in {Clean(rootPath)}, pattern \in {Clean(excludes[1])} :
        ~IsAbs(pattern) =>
            \E rules \in {RelativeRules(path, pattern) \/ TailRule(path, pattern)} :
                /\ PassedOver => rules
                /\ Processed => ~rules

\* a file excluded by a directory name that is a segment of its path
C16_Witness ==
    /\ rootPath = "proj/src/lib/b.txt" /\ excludes = <<"./src/">>
    /\ PassedOver /\ disk = disk0

\* C17: an absolute pattern matches exactly when the normalized path equals
\* it or begins with it followed by a separator; never through the segment,
\* base name or glob rules.
C17_AbsolutePrefixOnly ==
    \E path \in {Clean(rootPath)}, pattern \in {Clean(excludes[1])} :
        IsAbs(pattern) =>
            \E rules \in {path = pattern \/ HasPrefix(path, pattern \o "/")} :
                /\ PassedOver => rules
                /\ Processed => ~rules

\* an absolute pattern with a glob that would match the path is no match
C17_Witness ==
    /\ rootPath = "/w/proj/src/b.txt" /\ excludes = <<"/w/proj/*/b.txt">>
    /\ Processed /\ Rewritten("root")


----------------------------------------------------------------------------
(* C18 *)

\* C18: in file-list mode a path that does not exist, or whose ProcessFile
\* call fails, adds one warning and nothing else; the loop goes on to the next
\* line and returns only when the list is used up (an error comes back only
\* when standard input itself cannot be read); a path whose ProcessFile call
\* succeeds is appended to the results exactly when emojis were found in it,
\* so the results are in list order.
ListStepOK ==
    (mode = "list" /\ pc = "scan" /\ err' = "") =>
        /\ pending' = Tail(pending)
        /\ pc' = IF Tail(pending) = <<>> THEN "returned" ELSE "scan"
        /\ LET p == TrimSpace(Head(pending))
           IN IF p = ""
                THEN UNCHANGED <<results, stderr, readLog, disk>>
              ELSE IF \A n \in Nodes : WalkPath(".", n) # Clean(p)
                THEN /\ stderr' = Append(stderr, "Warning: file does not exist: " \o p)
                     /\ UNCHANGED <<results, readLog, disk>>
              ELSE /\ Len(readLog') = Len(readLog) + 1
                   /\ WalkPath(".", readLog'[Len(readLog')]) = Clean(p)
                   /\ last'.result.FilePath = p
                   /\ IF last'.err # ""
                        THEN /\ Len(stderr') = Len(stderr) + 1
                             /\ HasPrefix(stderr'[Len(stderr')],
                                          "Warning: failed to process " \o p)
                             /\ results' = results
                        ELSE /\ stderr' = stderr
                             /\ results' = IF last'.result.EmojisFound # <<>>
                                             THEN Append(results, last'.result)
                                             ELSE results

ListAbortsOnlyOnStdin ==
    (mode = "list" /\ err = "" /\ err' # "") => fault = [node |-> "stdin", op |-> "read"]

C18_WarnSkipContinue == [][ListStepOK /\ ListAbortsOnlyOnStdin]_vars

\* a list whose first path does not exist and whose second cannot be read has
\* been worked through: two warnings, and the third path is in the results
C18_Witness ==
    /\ mode = "list" /\ pc = "done" /\ err = ""
    /\ stdin = <<"nope.txt", "a.txt", " src/b.txt\t">>
    /\ fault = [node |-> "a", op |-> "read"]
    /\ Len(stderr) = 2
    /\ Len(reported) = 1 /\ reported[1].FilePath = "src/b.txt"

----------------------------------------------------------------------------
(* C19 *)

\* C19: in the JSON document the entry of every result whose Modified flag is
\* true has a new_size key whose value is the result's NewSize, whatever that
\* value is, and the entry of a result that is not modified has no new_size
\* key.
C19_NewSizeWhenModified ==
    jsonDoc # <<>> =>
        LET files == jsonDoc[1].files
        IN /\ Len(files) = Len(reported)
           /\ \A i \in 1..Len(files) :
                /\ files[i].modified = reported[i].Modified
                /\ IF reported[i].Modified
                     THEN /\ "new_size" \in DOMAIN files[i]
                          /\ files[i].new_size = reported[i].NewSize
                     ELSE "new_size" \notin DOMAIN files[i]

----------------------------------------------------------------------------
(* C20 *)

\* the piped content as the command reads it: line by line, the lines joined
\* by newlines
PipedText == TrimNewLine(WriteLines(ScanLines(stdin)))

\* C20: in stdin-content mode no file is written; with previewOnly=false the
\* bytes written to standard output are the piped content without its
\* qualifying emojis, whether or not it has any; with previewOnly=true
\* nothing is written to standard output.
C20_CleanedContentToStdout ==
    (mode = "content" /\ pc \in {"returned", "done"}) =>
        /\ disk = disk0
        /\ stdout = IF dryRun
                      THEN <<>>
                      ELSE RunesToString(SelectRunes(ToRunes(PipedText), Kept))

----------------------------------------------------------------------------
(* C21 *)

\* the classes of emojiPattern that r lies in
ClassesOf(r) ==
    {k \in 1..Len(emojiPattern) : r >= emojiPattern[k][1] /\ r <= emojiPattern[k][2]}

\* the classes of emojiPattern that are the ranges of isEmoji as well
SharedClasses == 1..7

\* the classes of emojiPattern that lie inside the seventh, U+1F900..U+1F9FF
InnerClasses == 9..16

\* the first and last code point of every class: two classes overlap exactly
\* when an end of one lies in the other
ClassEnds == {emojiPattern[k][i] : k \in 1..Len(emojiPattern), i \in 1..2}

\* the code points of the text searched
TextRunes == {ToRunes(text)[k] : k \in 1..Len(ToRunes(text))}

\* C21 as stated: no code point of a text the detector has searched lies in
\* two classes of the pattern the detector is built from.
C21_RangesDisjoint ==
    dpc \in {"found", "both"} =>
        \A r \in TextRunes : Cardinality(ClassesOf(r)) <= 1

\* C21, amended: the classes of emojiPattern other than the ninth to the
\* sixteenth are pairwise disjoint, the first seven, which are the ranges of
\* isEmoji, among them; the ninth to the sixteenth lie inside the seventh
\* (U+1F900..U+1F9FF), so a code point in one of them is in two classes at
\* least.  A code point in several classes is still reported once.
C21_RangesDisjointButSeventh ==
    dpc \in {"found", "both"} =>
        /\ \A r \in TextRunes \cup ClassEnds :
             /\ Cardinality(ClassesOf(r) \ InnerClasses) <= 1
             /\ Cardinality(ClassesOf(r) \cap SharedClasses) <= 1
             /\ (ClassesOf(r) \cap InnerClasses # {}) => 7 \in ClassesOf(r)
        /\ \A r \in TextRunes :
             (ClassesOf(r) # {} /\ EncodeRune(r) \notin allowedEmojis) =>
                 Cardinality({i \in 1..Len(found) : found[i] = EncodeRune(r)}) = 1

\* a text with a code point of the classes 7 and 9 has been searched
C21_Witness ==
    /\ dpc = "found"
    /\ text = Sun \o Robot \o Robot
    /\ ClassesOf(\h1F916) = {7, 9}
    /\ found = <<Sun, Robot>>

----------------------------------------------------------------------------
(* C22 *)

\* the bytes e occur in s
OccursIn(e, s) ==
    \E i \in 1..(Len(s) - Len(e) + 1) : SubSeq(s, i, i + Len(e) - 1) = e

\* C22: the result of RemoveEmojis under an allow set that is not empty and
\* has no entry occurring in the text (the per-code-point branch) is the
\* result of RemoveEmojis under the empty allow set (substitution, then the
\* filter by code point).
C22_AlgorithmsAgree ==
    (/\ dpc \in {"removed", "both"}
     /\ allowedEmojis # {}
     /\ \A e \in allowedEmojis : ~OccursIn(e, text))
        => cleaned = RemoveEmojis({}, text)

----------------------------------------------------------------------------
(* C23 *)

\* C23: for every text and allow set, FindEmojis finds nothing in the text
\* RemoveEmojis returned.
C23_NothingLeftToFind ==
    dpc \in {"removed", "both"} => FindEmojis(allowedEmojis, cleaned) = <<>>

----------------------------------------------------------------------------
(* C24 *)

\* the operations of a rewrite that can fail
RewriteOps == {"open", "write", "chmod"}

\* C24: when the rewrite of a file with qualifying emojis fails, in writing
\* the bytes or in setting the mode, ProcessFile returns an error and a result
\* with FilePath, EmojisFound, OriginalSize, NewSize and Modified = true set
\* from the content read; when the read fails it returns an error and a
\* result with nothing but FilePath, and the file is as it was.
C24_FailureKeepsResult ==
    Called =>
        /\ (/\ ~dryRun /\ HadEmojis(LastNode)
            /\ fault.node = LastNode /\ fault.op \in RewriteOps) =>
               /\ last.err # ""
               /\ last.result.FilePath = PathOf(LastNode)
               /\ last.result.EmojisFound = FindEmojis(allowedEmojis, disk0[LastNode].content)
               /\ last.result.OriginalSize = Len(disk0[LastNode].content)
               /\ last.result.NewSize =
                      Len(RemoveEmojis(allowedEmojis, disk0[LastNode].content))
               /\ last.result.Modified
        /\ Faulty(LastNode, "read") =>
               /\ last.err # ""
               /\ last.result = EmptyResult(PathOf(LastNode))
               /\ Untouched(LastNode)

\* setting the mode of src/b.txt failed after its bytes had been written
C24_Witness ==
    /\ Called /\ ~dryRun /\ LastNode = "srcb"
    /\ fault = [node |-> "srcb", op |-> "chmod"]
    /\ last.err # "" /\ last.result.Modified
    /\ disk["srcb"].content # disk0["srcb"].content
    /\ disk["srcb"].perm = \o755

----------------------------------------------------------------------------
(* C25 *)

\* this is the second run, and the first was a preview or not as `dry` says
SecondAfter(dry) == first # <<>> /\ first[1].dryRun = dry

\* C25: the results of ProcessDirectory are in the order of the walk: the
\* result of a file stands before the result of every file visited after it;
\* and a preview run that follows a preview run over the same tree, with the
\* same exclusion and allow lists, returns what the first returned.
C25_OrderedAndRepeatable ==
    mode = "dir" =>
        /\ \A i, j \in 1..Len(results) :
             i < j => Pos(NodeOfPath(results[i].FilePath))
                        < Pos(NodeOfPath(results[j].FilePath))
        /\ (SecondAfter(TRUE) /\ dryRun /\ Returned) =>
               /\ results = first[1].results
               /\ err = first[1].err

\* two previews of a tree with emojis in two files have returned the same two
\* results
C25_Witness ==
    /\ SecondAfter(TRUE) /\ dryRun /\ pc = "done"
    /\ Len(results) >= 2
    /\ results = first[1].results

----------------------------------------------------------------------------
(* C26 *)

\* the walk would not process the file n that `path` names: an exclusion
\* pattern matches the path, n lies in a version-control directory, or the
\* path ends in an extension of the deny list
WalkWouldFilter(path, n) ==
    isExcluded(excludes, path) \/ UnderVCS(n) \/ EndsInDenied(path)

----------------------------------------------------------------------------
(* C27 *)

\* the bytes of s without the bytes of its qualifying code points: every
\* other code point, and every byte that is part of none, stays as it is
DeleteQualifying(s0) ==
    The({ LET F[k \in 0..Len(sp)] ==
                IF k = 0 THEN <<>>
                ELSE IF InEmojiRange(sp[k].r) /\ EncodeRune(sp[k].r) \notin allowedEmojis
                       THEN F[k-1]
                       ELSE F[k-1] \o SubSeq(s, sp[k].at, sp[k].at + sp[k].w - 1)
          IN  F[Len(sp)] : s \in {s0}, sp \in {RuneSpans(s0)} })

\* C27: the content a successful rewrite leaves in a file is its former
\* content, whatever bytes that was, without the bytes of the qualifying code
\* points and with no other byte changed; and the NewSize of a modified result
\* is less than its OriginalSize.
C27_OnlyEmojiBytesDeleted ==
    (Called /\ ~dryRun /\ last.err = "" /\ HadEmojis(LastNode)) =>
        /\ disk[LastNode].content = DeleteQualifying(disk0[LastNode].content)
        /\ last.result.Modified
        /\ last.result.NewSize < last.result.OriginalSize

----------------------------------------------------------------------------
(* C28 *)

\* C28: after a run with previewOnly=false that returned no error, a second
\* run over the same root with the same exclusion and allow lists, preview or
\* not, has no results and changes the bytes of no file.
C28_SecondPassFindsNothing ==
    (mode = "dir" /\ SecondAfter(FALSE) /\ first[1].err = "") =>
        /\ results = <<>>
        /\ \A n \in FileNodes : disk[n].content = disk0[n].content

----------------------------------------------------------------------------
(* C29 *)

\* a relative exclusion pattern, normalized, is one of the segments of the
\* normalized root path
RootNamed ==
    \E i \in 1..Len(excludes) :
        /\ ~IsAbs(Clean(excludes[i]))
        /\ \E k \in 1..Len(Split(Clean(rootPath))) :
               Split(Clean(rootPath))[k] = Clean(excludes[i])

\* C29: when a relative exclusion pattern is a segment of the root path, its
\* last segment included, the root entry is excluded and the walk is pruned
\* there: no entry below the root is visited, no file is read or modified,
\* and ProcessDirectory returns no results and no error.
C29_RootSegmentPrunesAll ==
    (mode = "dir" /\ RootNamed) =>
        /\ \A i \in 1..Len(pending) : pending[i].node = "root"
        /\ readLog = <<>>
        /\ disk = disk0
        /\ results = <<>>
        /\ err = ""
        /\ pc = "walk" => isExcluded(excludes, Cur.path)

\* the walk of /w/proj with the pattern w is over, and a.txt and src/b.txt
\* still hold their emojis
C29_Witness ==
    /\ mode = "dir" /\ pc = "done" /\ ~dryRun
    /\ rootPath = "/w/proj" /\ excludes = <<"w">>
    /\ RootNamed
    /\ reported = <<>> /\ err = ""
    /\ HadEmojis("a") /\ Untouched("a") /\ HadEmojis("srcb") /\ Untouched("srcb")

----------------------------------------------------------------------------
(* C30 *)

\* the allow-list entries that are the string of exactly one code point
OneCodePoint ==
    {e \in allowedEmojis : Len(ToRunes(e)) = 1 /\ e = EncodeRune(ToRunes(e)[1])}

\* C30: an allow-list entry that is not the string of exactly one code point
\* exempts nothing: on every text FindEmojis and RemoveEmojis return what they
\* return when the allow set holds the one-code-point entries only.
C30_LongEntriesExemptNothing ==
    /\ dpc \in {"found", "both"} => found = FindEmojis(OneCodePoint, text)
    /\ dpc \in {"removed", "both"} => cleaned = RemoveEmojis(OneCodePoint, text)
====
